---- MODULE Spec2Model ----
(***************************************************************************)
(* Web loader engine: the browser pool (services/browser.rs), the request  *)
(* pipeline (routes/loader.rs), the security gate (services/security.rs)   *)
(* and the response cache (services/cache.rs) as one state machine.        *)
(*                                                                         *)
(* Strings the code inspects (error messages, host names) are sequences of *)
(* one-character strings, so that substring search, prefix and suffix      *)
(* tests and lower-casing are computed as the code computes them.          *)
(***************************************************************************)
EXTENDS Integers, Sequences, FiniteSets, TLC

\* ------------------------------------------------------------------ bounds
\* Concurrent per-URL pipeline tasks (one request each).
NumTasks == 2
\* Largest browser_pool_size the configuration is drawn from.
MaxPoolSize == 2
\* Non-ok outcomes (driver errors, hangs, conversion failures) the
\* environment may produce in one behaviour: while a single client sends a
\* request, and while NumTasks clients do.
MaxFaults == 3
ConcurrentFaults == 1

\* The services on their own: the clock stops at MaxNow, and a domain's
\* failure counter is not driven past MaxFailures.
MaxNow == 120
MaxFailures == 6
\* The load handler on its own: LoadFaults driver calls may fail.
LoadFaults == 1
\* The cache is watched until the clock reads MaxAge.
MaxAge == 4
\* A domain's request counter is not driven past MaxRequests.
MaxRequests == 4
\* The clock steps tried against the circuit breaker and the rate limiter
BreakerSteps == {30, 59}
RateSteps == {30, 31}

\* ------------------------------------------------------- program constants
MAX_RETRIES == 3
MAX_REQUEST_RETRIES == 2

\* ----------------------------------------------------------------- strings
UpperChars ==
    <<"A","B","C","D","E","F","G","H","I","J","K","L","M",
      "N","O","P","Q","R","S","T","U","V","W","X","Y","Z">>
LowerChars ==
    <<"a","b","c","d","e","f","g","h","i","j","k","l","m",
      "n","o","p","q","r","s","t","u","v","w","x","y","z">>

\* The character U+0060, which a string of this language cannot hold
Backtick == "U+0060"

\* The character U+000B
VerticalTab == ""

\* The ASCII characters that are white space for char::is_whitespace and for
\* \s of the regex crate: U+0009 to U+000D and the space
White_Space == {"\t", "\n", VerticalTab, "\f", "\r", " "}

\* char::to_lowercase on the ASCII range
LowerChar(c) ==
    IF \E i \in 1..26 : UpperChars[i] = c
    THEN LowerChars[CHOOSE i \in 1..26 : UpperChars[i] = c]
    ELSE c

\* str::to_lowercase
to_lowercase(s) == [i \in 1..Len(s) |-> LowerChar(s[i])]

\* str::contains(&str)
Contains(s, p) ==
    \E i \in 1..(Len(s) - Len(p) + 1) : SubSeq(s, i, i + Len(p) - 1) = p

\* str::starts_with / str::ends_with
StartsWith(s, p) == Len(p) <= Len(s) /\ SubSeq(s, 1, Len(p)) = p
EndsWith(s, p) == Len(p) <= Len(s) /\ SubSeq(s, Len(s) - Len(p) + 1, Len(s)) = p
\* The texts given to tidy_markdown are made of at most MaxPieces pieces.
MaxPieces == 5
\* ------------------------------------------------------- error messages
\* The pattern table of is_connection_error_str (browser.rs 369-393)
connection_error_patterns ==
    << <<"A","l","r","e","a","d","y","C","l","o","s","e","d">>,
       <<"W","s","(","A","l","r","e","a","d","y","C","l","o","s","e","d",")">>,
       <<"W","e","b","S","o","c","k","e","t">>,
       <<"c","o","n","n","e","c","t","i","o","n">>,
       <<"C","o","n","n","e","c","t","i","o","n">>,
       <<"C","o","n","n","e","c","t","i","o","n","C","l","o","s","e","d">>,
       <<"c","h","a","n","n","e","l"," ","c","l","o","s","e","d">>,
       <<"C","h","a","n","n","e","l"," ","c","l","o","s","e","d">>,
       <<"b","r","o","w","s","e","r"," ","c","l","o","s","e","d">>,
       <<"B","r","o","w","s","e","r"," ","c","l","o","s","e","d">>,
       <<"t","a","r","g","e","t"," ","c","l","o","s","e","d">>,
       <<"T","a","r","g","e","t"," ","c","l","o","s","e","d">>,
       <<"s","e","s","s","i","o","n"," ","c","l","o","s","e","d">>,
       <<"S","e","s","s","i","o","n"," ","c","l","o","s","e","d">>,
       <<"p","i","p","e">>,
       <<"P","i","p","e">>,
       <<"d","i","s","c","o","n","n","e","c","t","e","d">>,
       <<"D","i","s","c","o","n","n","e","c","t","e","d">>,
       <<"n","o","t"," ","c","o","n","n","e","c","t","e","d">>,
       <<"N","o","t"," ","c","o","n","n","e","c","t","e","d">>,
       <<"m","a","y"," ","b","e"," ","d","e","a","d">>,
       <<"T","i","m","e","o","u","t"," ","c","r","e","a","t","i","n","g"," ","p","a","g","e">>,
       <<"T","i","m","e","o","u","t"," ","s","e","t","t","i","n","g">> >>

\* The fixed texts the pool and the pipeline put in a BrowserError
\* (browser.rs 73-315, loader.rs 161-163), by the place that builds it
ContextTexts ==
    [ not_initialized |->
          <<"B","r","o","w","s","e","r"," ","n","o","t"," ","i","n","i","t","i","a","l","i","z","e","d">>,
      timeout_page |->
          <<"T","i","m","e","o","u","t"," ","c","r","e","a","t","i","n","g"," ","p","a","g","e"," ","-"," ","b","r","o","w","s","e","r"," ","c","o","n","n","e","c","t","i","o","n"," ","m","a","y"," ","b","e"," ","d","e","a","d">>,
      create_page |->
          <<"F","a","i","l","e","d"," ","t","o"," ","c","r","e","a","t","e"," ","p","a","g","e",":"," ">>,
      timeout_ua |->
          <<"T","i","m","e","o","u","t"," ","s","e","t","t","i","n","g"," ","u","s","e","r"," ","a","g","e","n","t"," ","-"," ","b","r","o","w","s","e","r"," ","c","o","n","n","e","c","t","i","o","n"," ","m","a","y"," ","b","e"," ","d","e","a","d">>,
      set_ua |->
          <<"F","a","i","l","e","d"," ","t","o"," ","s","e","t"," ","u","s","e","r"," ","a","g","e","n","t",":"," ">>,
      timeout_cookies |->
          <<"T","i","m","e","o","u","t"," ","s","e","t","t","i","n","g"," ","c","o","o","k","i","e","s"," ","-"," ","b","r","o","w","s","e","r"," ","c","o","n","n","e","c","t","i","o","n"," ","m","a","y"," ","b","e"," ","d","e","a","d">>,
      set_cookies |->
          <<"F","a","i","l","e","d"," ","t","o"," ","s","e","t"," ","c","o","o","k","i","e","s",":"," ">>,
      launch |->
          <<"F","a","i","l","e","d"," ","t","o"," ","l","a","u","n","c","h"," ","b","r","o","w","s","e","r",":"," ">>,
      max_retries |->
          <<"F","a","i","l","e","d"," ","t","o"," ","g","e","t"," ","p","a","g","e"," ","a","f","t","e","r"," ","m","a","x"," ","r","e","t","r","i","e","s">>,
      navigation |->
          <<"N","a","v","i","g","a","t","i","o","n"," ","f","a","i","l","e","d",":"," ">>,
      ready_state |->
          <<"R","e","a","d","y"," ","s","t","a","t","e"," ","c","h","e","c","k"," ","f","a","i","l","e","d",":"," ">>,
      selector |->
          <<"S","e","l","e","c","t","o","r"," ","w","a","i","t"," ","f","a","i","l","e","d",":"," ">>,
      content |->
          <<"F","a","i","l","e","d"," ","t","o"," ","g","e","t"," ","c","o","n","t","e","n","t",":"," ">>,
      process_max_retries |->
          <<"F","a","i","l","e","d"," ","t","o"," ","p","r","o","c","e","s","s"," ","U","R","L"," ","a","f","t","e","r"," ","m","a","x"," ","r","e","t","r","i","e","s">> ]

\* ------------------------------------------------------------------ errors
\* AppError (error.rs).  A BrowserError payload is a fixed text of the code
\* (ctx) followed by the driver's own error text (drv).
NoError == [kind |-> "None", ctx |-> "none", drv |-> "none"]
BrowserError(ctx, drv) == [kind |-> "BrowserError", ctx |-> ctx, drv |-> drv]
TimeoutError == [kind |-> "Timeout", ctx |-> "none", drv |-> "none"]
ScrapingError == [kind |-> "ScrapingError", ctx |-> "none", drv |-> "none"]
\* readability.rs 17-18: options.url is not a URL
ExtractionError == [kind |-> "ExtractionError", ctx |-> "invalid_url", drv |-> "none"]
ScreenshotError(drv) == [kind |-> "ScreenshotError", ctx |-> "none", drv |-> drv]
InvalidUrl(ctx) == [kind |-> "InvalidUrl", ctx |-> ctx, drv |-> "none"]
BlockedUrl(ctx) == [kind |-> "BlockedUrl", ctx |-> ctx, drv |-> "none"]
RateLimitExceeded == [kind |-> "RateLimitExceeded", ctx |-> "none", drv |-> "none"]
CircuitBreakerOpen == [kind |-> "CircuitBreakerOpen", ctx |-> "none", drv |-> "none"]
TooManyDomains(n) ==
    [kind |-> "TooManyDomains", ctx |-> "none", drv |-> "none", count |-> n]

\* Error texts of the driver: those of test_connection_error_detection
\* (browser.rs 430-452) and two in other letter cases
ErrorTexts ==
    [ closed |-> <<"W","s","(","A","l","r","e","a","d","y","C","l","o","s","e","d",")">>,
      notfound |-> <<"e","l","e","m","e","n","t"," ","n","o","t"," ","f","o","u","n","d">>,
      timeout_waiting |-> <<"t","i","m","e","o","u","t"," ","w","a","i","t","i","n","g"," ","f","o","r"," ","e","l","e","m","e","n","t">>,
      invalid_selector |-> <<"i","n","v","a","l","i","d"," ","s","e","l","e","c","t","o","r">>,
      page_load_failed |-> <<"p","a","g","e"," ","l","o","a","d"," ","f","a","i","l","e","d">>,
      js_error |-> <<"J","a","v","a","S","c","r","i","p","t"," ","e","r","r","o","r">>,
      parsing_failed |-> <<"p","a","r","s","i","n","g"," ","f","a","i","l","e","d">>,
      ws_failed |-> <<"W","e","b","S","o","c","k","e","t"," ","c","o","n","n","e","c","t","i","o","n"," ","f","a","i","l","e","d">>,
      conn_refused |-> <<"C","o","n","n","e","c","t","i","o","n"," ","r","e","f","u","s","e","d">>,
      target_closed |-> <<"t","a","r","g","e","t"," ","c","l","o","s","e","d">>,
      pipe_broken |-> <<"p","i","p","e"," ","b","r","o","k","e","n">>,
      not_connected |-> <<"n","o","t"," ","c","o","n","n","e","c","t","e","d"," ","t","o"," ","b","r","o","w","s","e","r">>,
      upper_channel |-> <<"C","H","A","N","N","E","L"," ","C","L","O","S","E","D">>,
      mixed_session |-> <<"S","e","s","s","i","o","n"," ","C","l","o","s","e","d"," ","b","y"," ","p","e","e","r">> ]

\* Display text of a driver (chromiumoxide) error
DrvText(drv) == IF drv \in DOMAIN ErrorTexts THEN ErrorTexts[drv] ELSE << >>

CtxText(ctx) == IF ctx \in DOMAIN ContextTexts THEN ContextTexts[ctx] ELSE << >>

\* The String a BrowserError carries: format!("<ctx text>{}", e)
Payload(err) == CtxText(err.ctx) \o DrvText(err.drv)

is_connection_error_str(err_msg) ==
    LET err_lower == to_lowercase(err_msg)
    IN  \E i \in 1..Len(connection_error_patterns) :
            Contains(err_lower, to_lowercase(connection_error_patterns[i]))

\* A classifier that looks at the text of every kind of error
is_connection_error_any_kind(err) == is_connection_error_str(Payload(err))

\* BrowserPool::is_connection_error
is_connection_error(err) ==
    IF err.kind = "BrowserError" THEN is_connection_error_str(Payload(err)) ELSE FALSE

\* The contexts in which the pool and the pipeline build a BrowserError and
\* the driver texts they meet; the classifier's answers over every
\* BrowserError with a known text, computed once
ErrorContexts ==
    {"not_initialized", "timeout_page", "create_page", "timeout_ua", "set_ua",
     "timeout_cookies", "set_cookies", "launch", "max_retries", "navigation",
     "ready_state", "selector", "content", "process_max_retries"}
DriverTexts == {"none", "closed", "notfound"}
connection_errors ==
    {e \in {BrowserError(c, d) : c \in ErrorContexts \cup {"none"},
                                 d \in DriverTexts \cup DOMAIN ErrorTexts} :
        is_connection_error(e)}
connection_texts == {d \in DriverTexts : is_connection_error_str(DrvText(d))}
classified_connection(e) == e \in connection_errors

\* -------------------------------------------------------------------- URLs
\* Url::parse (security.rs 43, readability.rs 17) and host.parse::<IpAddr>()
\* (security.rs 89), as the url crate and std::net compute them on texts of
\* ASCII characters and U+FFFD.  Percent-encoded bytes are decoded as UTF-8
\* and Punycode labels are decoded, to code points.  Not computed: what
\* UTS 46 (the idna crate with its Unicode tables: the mapping, NFC, the
\* validity criteria with ContextJ and Bidi) makes of a domain that has a
\* character outside ASCII, in the text or in a decoded label.  The tables
\* are no part of the repository; that answer is the parameter uts46 of the
\* definitions below, [ok, domain], and is consulted for such domains only.
DigitChars == <<"0","1","2","3","4","5","6","7","8","9">>
IsDigit(c) == \E i \in 1..10 : DigitChars[i] = c
DigitVal(c) == (CHOOSE i \in 1..10 : DigitChars[i] = c) - 1
HexChars == <<"0","1","2","3","4","5","6","7","8","9","a","b","c","d","e","f">>
UpperHexChars == <<"0","1","2","3","4","5","6","7","8","9","A","B","C","D","E","F">>
IsHexDigit(c) == \E i \in 1..16 : HexChars[i] = LowerChar(c)
HexVal(c) == (CHOOSE i \in 1..16 : HexChars[i] = LowerChar(c)) - 1
IsAlpha(c) == \E i \in 1..26 : UpperChars[i] = c \/ LowerChars[i] = c

\* The printable ASCII characters, U+0020 to U+007E in order
AsciiChars ==
    <<" ","!","\"","#","$","%","&","'","(",")","*","+",",","-",".","/",
      "0","1","2","3","4","5","6","7","8","9",":",";","<","=",">","?","@",
      "A","B","C","D","E","F","G","H","I","J","K","L","M",
      "N","O","P","Q","R","S","T","U","V","W","X","Y","Z",
      "[","\\","]","^","_",Backtick,
      "a","b","c","d","e","f","g","h","i","j","k","l","m",
      "n","o","p","q","r","s","t","u","v","w","x","y","z","{","|","}","~">>

\* The character U+0000, written out so that this module stays a text
Nul == "U+0000"

\* The C0 controls, U+0000 to U+001F in order, and U+007F
C0Controls ==
    <<Nul,"","","","","","","","","\t","\n",VerticalTab,"\f","\r","","",
      "","","","","","","","","","","","","","","","">>
Delete == ""

\* U+FFFD, the one character outside ASCII in the texts here
Replacement == "�"

\* char as u32
CodePoint(c) ==
    IF \E i \in 1..95 : AsciiChars[i] = c
    THEN 31 + CHOOSE i \in 1..95 : AsciiChars[i] = c
    ELSE IF \E i \in 1..32 : C0Controls[i] = c
    THEN (CHOOSE i \in 1..32 : C0Controls[i] = c) - 1
    ELSE IF c = Delete THEN 127
    ELSE 65533

\* char::from_u32 for the characters of the texts here
ByteChar(code) ==
    CASE code \in 32..126 -> AsciiChars[code - 31]
      [] code \in 0..31 -> C0Controls[code + 1]
      [] code = 127 -> Delete
      [] OTHER -> Replacement

\* char::encode_utf8: the bytes of a code point
Utf8Bytes(cp) ==
    IF cp < 128 THEN << cp >>
    ELSE IF cp < 2048 THEN << 192 + (cp \div 64), 128 + (cp % 64) >>
    ELSE IF cp < 65536
    THEN << 224 + (cp \div 4096), 128 + ((cp \div 64) % 64), 128 + (cp % 64) >>
    ELSE << 240 + (cp \div 262144), 128 + ((cp \div 4096) % 64),
            128 + ((cp \div 64) % 64), 128 + (cp % 64) >>

\* percent_encoding::percent_encode_byte: "%" and two upper-case hex digits
percent_encode_byte(byte) ==
    << "%", UpperHexChars[(byte \div 16) + 1], UpperHexChars[(byte % 16) + 1] >>

\* percent_encoding::percent_decode: the bytes of the text, "%" and two hex
\* digits being one byte
RECURSIVE percent_decode(_)
percent_decode(s) ==
    IF Len(s) = 0 THEN << >>
    ELSE IF s[1] = "%" /\ Len(s) >= 3 /\ IsHexDigit(s[2]) /\ IsHexDigit(s[3])
    THEN << (16 * HexVal(s[2])) + HexVal(s[3]) >>
         \o percent_decode(SubSeq(s, 4, Len(s)))
    ELSE Utf8Bytes(CodePoint(s[1])) \o percent_decode(Tail(s))

\* PercentDecode::decode_utf8_lossy (String::from_utf8_lossy): the code
\* points of the bytes; the bytes of an ill-formed sequence, up to the first
\* that cannot go on it, are U+FFFD
RECURSIVE decode_utf8_lossy(_)
decode_utf8_lossy(bytes) ==
    IF Len(bytes) = 0 THEN << >>
    ELSE LET b1 == bytes[1]
             At(i) == IF i <= Len(bytes) THEN bytes[i] ELSE -1
             width == IF b1 \in 194..223 THEN 2 ELSE IF b1 \in 224..239 THEN 3
                      ELSE IF b1 \in 240..244 THEN 4 ELSE 1
             ok2 == At(2) \in (CASE b1 = 224 -> 160 [] b1 = 240 -> 144 [] OTHER -> 128)
                              .. (CASE b1 = 237 -> 159 [] b1 = 244 -> 143 [] OTHER -> 191)
             ok3 == At(3) \in 128..191
             ok4 == At(4) \in 128..191
             Rest(n) == decode_utf8_lossy(SubSeq(bytes, n + 1, Len(bytes)))
         IN  IF b1 < 128 THEN << b1 >> \o Rest(1)
             ELSE IF width = 2 /\ ok2
             THEN << ((b1 % 32) * 64) + (At(2) % 64) >> \o Rest(2)
             ELSE IF width = 3 /\ ok2 /\ ok3
             THEN << ((b1 % 16) * 4096) + ((At(2) % 64) * 64) + (At(3) % 64) >> \o Rest(3)
             ELSE IF width = 4 /\ ok2 /\ ok3 /\ ok4
             THEN << ((b1 % 8) * 262144) + ((At(2) % 64) * 4096)
                     + ((At(3) % 64) * 64) + (At(4) % 64) >> \o Rest(4)
             ELSE << 65533 >>
                  \o Rest(IF width = 1 \/ ~ok2 THEN 1 ELSE IF ~ok3 THEN 2 ELSE 3)

\* str::split(c)
RECURSIVE Split(_, _)
Split(s, c) ==
    IF \A i \in 1..Len(s) : s[i] # c
    THEN << s >>
    ELSE LET k == CHOOSE i \in 1..Len(s) : s[i] = c /\ \A j \in 1..(i - 1) : s[j] # c
         IN  << SubSeq(s, 1, k - 1) >> \o Split(SubSeq(s, k + 1, Len(s)), c)

\* str::split('.')
SplitDots(s) == Split(s, ".")

RECURSIVE DecimalVal(_)
DecimalVal(s) ==
    IF Len(s) = 0 THEN 0
    ELSE 10 * DecimalVal(SubSeq(s, 1, Len(s) - 1)) + DigitVal(s[Len(s)])

\* One octet as std::net accepts it: 1 to 3 digits, no leading zero, <= 255
IsOctet(s) ==
    /\ Len(s) \in 1..3
    /\ \A i \in 1..Len(s) : IsDigit(s[i])
    /\ (Len(s) > 1 => s[1] # "0")
    /\ DecimalVal(s) <= 255

\* The value of a one-element set: Only({e}) is e, worked out once
Only(S) == CHOOSE x \in S : TRUE

\* One group of an IPv6 address: 1 to 4 hex digits
HexGroup(g) == Len(g) \in 1..4 /\ \A i \in 1..Len(g) : IsHexDigit(g[i])
RECURSIVE HexGroupVal(_)
HexGroupVal(g) ==
    IF Len(g) = 0 THEN 0
    ELSE 16 * HexGroupVal(SubSeq(g, 1, Len(g) - 1)) + HexVal(g[Len(g)])

\* A dotted quad in the last two groups of an IPv6 address
DottedQuad(g) ==
    \E parts \in {SplitDots(g)} : Len(parts) = 4 /\ \A i \in 1..4 : IsOctet(parts[i])

\* The 16-bit segments of a run of groups; only the last group may be a
\* dotted quad: [ok, segments]
Ipv6_groups(gs) ==
    IF Len(gs) = 0 THEN [ok |-> TRUE, segments |-> << >>]
    ELSE IF \E i \in 1..(Len(gs) - 1) : ~HexGroup(gs[i])
    THEN [ok |-> FALSE, segments |-> << >>]
    ELSE Only({ IF HexGroup(last)
                THEN [ok |-> TRUE,
                      segments |-> [i \in 1..Len(gs) |-> HexGroupVal(gs[i])]]
                ELSE IF DottedQuad(last)
                THEN Only({ [ok |-> TRUE,
                             segments |->
                                 [i \in 1..(Len(gs) - 1) |-> HexGroupVal(gs[i])]
                                 \o << 256 * DecimalVal(o[1]) + DecimalVal(o[2]),
                                       256 * DecimalVal(o[3]) + DecimalVal(o[4]) >>] :
                            o \in {SplitDots(last)} })
                ELSE [ok |-> FALSE, segments |-> << >>] :
                last \in {gs[Len(gs)]} })

\* The IPv6 address parser (the url crate's and std::net's accept the same
\* texts): groups separated by ":", at most one "::" standing for one or
\* more zero groups, eight segments in all: [ok, segments]
Ipv6_parse(input) ==
    LET fail == [ok |-> FALSE, segments |-> << >>]
        Groups(s) == IF Len(s) = 0 THEN << >> ELSE Split(s, ":")
    IN  IF \E i \in 1..(Len(input) - 1) : input[i] = ":" /\ input[i + 1] = ":"
        THEN Only({ Only({
                 IF \/ \E i \in 1..Len(hg) : ~HexGroup(hg[i])
                    \/ ~tail.ok
                    \/ Len(hg) + Len(tail.segments) > 7
                 THEN fail
                 ELSE [ok |-> TRUE,
                       segments |->
                           [i \in 1..Len(hg) |-> HexGroupVal(hg[i])]
                           \o [i \in 1..(8 - Len(hg) - Len(tail.segments)) |-> 0]
                           \o tail.segments] :
                 hg \in {Groups(SubSeq(input, 1, dc - 1))},
                 tail \in {Ipv6_groups(Groups(SubSeq(input, dc + 2, Len(input))))} }) :
               dc \in {CHOOSE i \in 1..(Len(input) - 1) :
                          /\ input[i] = ":" /\ input[i + 1] = ":"
                          /\ \A j \in 1..(i - 1) : ~(input[j] = ":" /\ input[j + 1] = ":")} })
        ELSE Only({ IF all.ok /\ Len(all.segments) = 8 THEN all ELSE fail :
                    all \in {Ipv6_groups(Groups(input))} })

\* One segment in lower-case hex, no leading zero
RECURSIVE HexText(_)
HexText(n) ==
    IF n < 16 THEN << HexChars[n + 1] >>
    ELSE HexText(n \div 16) \o << HexChars[(n % 16) + 1] >>

\* [String]::concat
RECURSIVE Concat(_)
Concat(ts) == IF Len(ts) = 0 THEN << >> ELSE ts[1] \o Concat(Tail(ts))

\* The url crate's Display of an IPv6 address: the first longest run of two
\* or more zero segments is written "::"
Ipv6_text(segments) ==
    LET RunAt(i) == IF \E j \in i..8 : segments[j] # 0
                    THEN (CHOOSE j \in i..8 : segments[j] # 0
                                              /\ \A k \in i..(j - 1) : segments[k] = 0) - i
                    ELSE 9 - i
        Colons(from, to) ==
            [i \in 1..(to - from + 1) |->
                 IF i = 1 THEN HexText(segments[from]) ELSE <<":">> \o HexText(segments[from + i - 1])]
    IN  Only({ IF longest < 2 THEN Concat(Colons(1, 8))
               ELSE Only({ Concat(Colons(1, start - 1)) \o <<":", ":">>
                           \o Concat(Colons(start + longest, 8)) :
                           start \in {CHOOSE i \in 1..8 :
                                         RunAt(i) = longest
                                         /\ \A j \in 1..(i - 1) : RunAt(j) < longest} }) :
               longest \in {CHOOSE m \in 0..8 :
                               /\ \E i \in 1..8 : RunAt(i) = m
                               /\ \A i \in 1..8 : RunAt(i) <= m} })

\* host.parse::<IpAddr>(): [ok, v6, octets, segments]
ParseIpAddr(host) ==
    LET parts == SplitDots(host)
    IN  IF Len(parts) = 4 /\ \A i \in 1..4 : IsOctet(parts[i])
        THEN [ok |-> TRUE, v6 |-> FALSE,
              octets |-> [i \in 1..4 |-> DecimalVal(parts[i])], segments |-> << >>]
        ELSE Only({ IF v6.ok
                    THEN [ok |-> TRUE, v6 |-> TRUE, octets |-> << >>,
                          segments |-> v6.segments]
                    ELSE [ok |-> FALSE, v6 |-> FALSE, octets |-> << >>,
                          segments |-> << >>] :
                    v6 \in {Ipv6_parse(host)} })

\* Display of an integer in decimal
RECURSIVE DecimalText(_)
DecimalText(n) ==
    IF n < 10 THEN << DigitChars[n + 1] >>
    ELSE DecimalText(n \div 10) \o << DigitChars[(n % 10) + 1] >>

\* u32::from_str_radix on digits of the radix r, the value kept as its four
\* bytes, most significant first: [ok, overflow, bytes]
RECURSIVE RadixBytes(_, _)
RadixBytes(s, r) ==
    IF Len(s) = 0 THEN [ok |-> TRUE, overflow |-> FALSE, bytes |-> <<0, 0, 0, 0>>]
    ELSE Only({ IF p.overflow THEN p
                ELSE LET x4 == p.bytes[4] * r + HexVal(s[Len(s)])
                         x3 == p.bytes[3] * r + x4 \div 256
                         x2 == p.bytes[2] * r + x3 \div 256
                         x1 == p.bytes[1] * r + x2 \div 256
                     IN  [ok |-> TRUE, overflow |-> x1 >= 256,
                          bytes |-> << x1 % 256, x2 % 256, x3 % 256, x4 % 256 >>] :
                p \in {RadixBytes(SubSeq(s, 1, Len(s) - 1), r)} })

\* The url crate's parse_ipv4number: "0x"/"0X" leads a hex number, another
\* leading "0" an octal one; ok is FALSE when the part is not a number,
\* overflow is TRUE when it does not fit in a u32
Ipv4Number(part) ==
    LET hex == Len(part) >= 2 /\ part[1] = "0" /\ part[2] \in {"x", "X"}
        oct == ~hex /\ Len(part) >= 2 /\ part[1] = "0"
        r == IF hex THEN 16 ELSE IF oct THEN 8 ELSE 10
        digits == IF hex THEN SubSeq(part, 3, Len(part))
                  ELSE IF oct THEN SubSeq(part, 2, Len(part)) ELSE part
        valid(c) == CASE r = 8 -> IsDigit(c) /\ DigitVal(c) <= 7
                      [] r = 10 -> IsDigit(c)
                      [] r = 16 -> IsHexDigit(c)
        not_a_number == [ok |-> FALSE, overflow |-> FALSE, bytes |-> <<0, 0, 0, 0>>]
    IN  IF Len(part) = 0 THEN not_a_number
        ELSE IF \E i \in 1..Len(digits) : ~valid(digits[i]) THEN not_a_number
        ELSE RadixBytes(digits, r)

\* The url crate's ends_in_a_number on the labels of a domain: the last
\* label, an empty last label set aside, is all digits or a number
ends_in_a_number(labels) ==
    LET n == Len(labels)
    IN  IF labels[n] = << >> /\ n = 1 THEN FALSE
        ELSE \E last \in {IF labels[n] = << >> THEN labels[n - 1] ELSE labels[n]} :
                \/ Len(last) > 0 /\ \A i \in 1..Len(last) : IsDigit(last[i])
                \/ Ipv4Number(last).ok

\* The url crate's parse_ipv4addr on the labels of a host: at most four
\* numbers, the last one filling the bytes that are left, written back in
\* dotted decimal: [ok, host]
Ipv4_parse(labels) ==
    Only({ Only({
        IF \/ n > 4 \/ n = 0
           \/ \E i \in 1..n : ~nums[i].ok \/ nums[i].overflow
           \/ \E i \in 1..(n - 1) : \E k \in 1..3 : nums[i].bytes[k] # 0
           \/ \E k \in 1..(n - 1) : nums[n].bytes[k] # 0
        THEN [ok |-> FALSE, host |-> << >>]
        ELSE LET octet(k) == IF k < n THEN nums[k].bytes[4] ELSE nums[n].bytes[k]
             IN  [ok |-> TRUE,
                  host |-> DecimalText(octet(1)) \o <<".">>
                           \o DecimalText(octet(2)) \o <<".">>
                           \o DecimalText(octet(3)) \o <<".">>
                           \o DecimalText(octet(4))] :
        n \in {Len(parts)},
        nums \in {[i \in 1..Len(parts) |-> Ipv4Number(parts[i])]} }) :
      parts \in {IF Len(labels) > 0 /\ labels[Len(labels)] = << >>
                 THEN SubSeq(labels, 1, Len(labels) - 1) ELSE labels} })

\* The position of the first element of s that is in cs, Len(s) + 1 if none
First(s, cs) ==
    IF \E i \in 1..Len(s) : s[i] \in cs
    THEN CHOOSE i \in 1..Len(s) : s[i] \in cs /\ \A j \in 1..(i - 1) : s[j] \notin cs
    ELSE Len(s) + 1

\* The position of the last c in s, 0 if none
Last(s, c) ==
    IF \E i \in 1..Len(s) : s[i] = c
    THEN CHOOSE i \in 1..Len(s) : s[i] = c /\ \A j \in (i + 1)..Len(s) : s[j] # c
    ELSE 0

\* Forbidden host code points, and forbidden domain code points, of the URL
\* standard
ForbiddenHost ==
    {Nul, "\t", "\n", "\r", " ", "#", "/", ":", "<", ">", "?", "@", "[", "\\", "]", "^", "|"}
ForbiddenDomain ==
    ForbiddenHost \cup {C0Controls[i] : i \in 1..32} \cup {"%", Delete}

\* idna::punycode (RFC 3492), as the idna crate decodes the payload of a
\* lower-cased label.  The value of a digit, -1 for any other character
decode_digit(c) ==
    IF \E i \in 1..26 : LowerChars[i] = c
    THEN (CHOOSE i \in 1..26 : LowerChars[i] = c) - 1
    ELSE IF IsDigit(c) THEN 26 + DigitVal(c)
    ELSE -1

\* The bias adaptation: BASE 36, T_MIN 1, T_MAX 26, SKEW 38, DAMP 700
RECURSIVE adapt_loop(_, _)
adapt_loop(delta, k) ==
    IF delta > 455 THEN adapt_loop(delta \div 35, k + 36)
    ELSE k + ((36 * delta) \div (delta + 38))
adapt(delta, num_points, first_time) ==
    Only({ adapt_loop(d + (d \div num_points), 0) :
           d \in {IF first_time THEN delta \div 700 ELSE delta \div 2} })

\* weight.checked_mul(factor) in u32: the product if it is below 2^31, -1 if
\* it is below 2^32, -2 if it overflows
checked_mul(weight, factor) ==
    Only({ IF high >= 65536 THEN -2 ELSE IF high >= 32768 THEN -1
           ELSE weight * factor :
           high \in {((weight \div 65536) * factor)
                     + (((weight % 65536) * factor) \div 65536)} })

\* One delta, a number written in digits of growing weight, read from
\* position pos: [ok, i, pos].  The decoder counts in u32, this language up
\* to 2^31 - 1: a sum of 2^31 or more always ends in an
\* error (by overflow, by the end of the payload, or as a code point that is
\* no character, in a label of fewer than 1927 characters); a weight of
\* 2^31 or more (-1) is of use only before the digit zero.
RECURSIVE decode_delta(_, _, _, _, _, _)
decode_delta(input, pos, i, weight, k, bias) ==
    LET fail == [ok |-> FALSE, i |-> 0, pos |-> 0]
    IN  IF pos > Len(input) \/ decode_digit(input[pos]) < 0 THEN fail
        ELSE Only({
               IF digit > 0 /\ (weight < 0 \/ weight > (2147483647 - i) \div digit)
               THEN fail
               ELSE IF digit < t
               THEN [ok |-> TRUE, i |-> IF digit = 0 THEN i ELSE i + (digit * weight),
                     pos |-> pos + 1]
               ELSE IF checked_mul(weight, 36 - t) = -2 THEN fail
               ELSE decode_delta(input, pos + 1, i + (digit * weight),
                                 checked_mul(weight, 36 - t), k + 36, bias) :
               digit \in {decode_digit(input[pos])},
               t \in {IF k <= bias THEN 1 ELSE IF k >= bias + 26 THEN 26
                      ELSE k - bias} })

\* The deltas of a payload one after the other, each inserting one code
\* point (no surrogate, at most U+10FFFF) into the output: [ok, out]
RECURSIVE decode_insertions(_, _, _, _, _, _)
decode_insertions(input, pos, code_point, i, bias, out) ==
    LET fail == [ok |-> FALSE, out |-> << >>]
    IN  IF pos > Len(input) THEN [ok |-> TRUE, out |-> out]
        ELSE Only({
               IF ~d.ok THEN fail
               ELSE IF d.i \div (Len(out) + 1) > 1114111 - code_point THEN fail
               ELSE Only({
                      IF c \in 55296..57343 THEN fail
                      ELSE decode_insertions(
                             input, d.pos, c, at + 1,
                             adapt(d.i - i, Len(out) + 1, i = 0),
                             SubSeq(out, 1, at) \o << c >> \o SubSeq(out, at + 1, Len(out))) :
                      c \in {code_point + (d.i \div (Len(out) + 1))},
                      at \in {d.i % (Len(out) + 1)} }) :
               d \in {decode_delta(input, pos, i, 1, 36, bias)} })

\* Decoder::decode: the text before the last "-" stands as it is, the digits
\* after it are the insertions: [ok, out], out the code points
punycode_decode(input) ==
    Only({ decode_insertions(input, IF position > 1 THEN position + 1 ELSE 1,
                             128, 0, 72,
                             [j \in 1..(IF position = 0 THEN 0 ELSE position - 1) |->
                                 CodePoint(input[j])]) :
           position \in {Last(input, "-")} })

\* A label that starts with "xn--" is an error, whatever the Unicode tables
\* say, unless its payload decodes to a text that has a character outside
\* ASCII, no U+FFFD, and no ZERO WIDTH JOINER or NON-JOINER (U+200D, U+200C)
\* as its first character, where ContextJ has no character before it to
\* look at.  A joiner after another character is for the tables to judge.
punycode_label_decodes(label) ==
    Only({ /\ d.ok
           /\ \E j \in 1..Len(d.out) : d.out[j] >= 128
           /\ \A j \in 1..Len(d.out) :
                 /\ d.out[j] # 65533
                 /\ d.out[j] \in {8204, 8205} => j > 1 :
           d \in {punycode_decode(SubSeq(label, 5, Len(label)))} })

\* The url crate's domain_to_ascii (idna with the deny list of the URL
\* standard) for the code points of a domain: [ok, domain].  U+FFFD and the
\* forbidden ASCII characters are errors.  A domain with a character outside
\* ASCII is what UTS 46 makes of it.  An ASCII domain is lower-cased; a label
\* of it that starts with "xn--" must decode, to a text UTS 46 finds valid.
domain_to_ascii(domain, uts46) ==
    LET fail == [ok |-> FALSE, domain |-> << >>]
    IN  IF \E i \in 1..Len(domain) :
              \/ domain[i] = 65533
              \/ domain[i] < 128 /\ ByteChar(domain[i]) \in ForbiddenDomain
        THEN fail
        ELSE IF \E i \in 1..Len(domain) : domain[i] >= 128
        THEN IF uts46.ok THEN [ok |-> TRUE, domain |-> uts46.domain] ELSE fail
        ELSE Only({
               IF \E i \in 1..Len(labels) :
                     /\ StartsWith(labels[i], <<"x","n","-","-">>)
                     /\ (~punycode_label_decodes(labels[i]) \/ ~uts46.ok)
               THEN fail
               ELSE [ok |-> TRUE, domain |-> lower] :
               lower \in {to_lowercase([i \in 1..Len(domain) |-> ByteChar(domain[i])])},
               labels \in {SplitDots(to_lowercase([i \in 1..Len(domain) |->
                                                     ByteChar(domain[i])]))} })

\* url::Host::parse for a special scheme: [ok, host], host as host_str()
\* gives it.  An IPv6 literal is parsed and written back in brackets; any
\* other text is percent-decoded, read as UTF-8 and made a domain, and a
\* domain that ends in a number is an IPv4 address.
Host_parse(input, uts46) ==
    LET fail == [ok |-> FALSE, host |-> << >>]
    IN  IF Len(input) > 0 /\ input[1] = "["
        THEN IF input[Len(input)] # "]" THEN fail
             ELSE Only({ IF v6.ok
                         THEN [ok |-> TRUE,
                               host |-> <<"[">> \o Ipv6_text(v6.segments) \o <<"]">>]
                         ELSE fail :
                         v6 \in {Ipv6_parse(SubSeq(input, 2, Len(input) - 1))} })
        ELSE Only({ IF ~d.ok \/ Len(d.domain) = 0 THEN fail
                    ELSE Only({ IF ends_in_a_number(labels) THEN Ipv4_parse(labels)
                                ELSE [ok |-> TRUE, host |-> d.domain] :
                                labels \in {SplitDots(d.domain)} }) :
                    d \in {domain_to_ascii(decode_utf8_lossy(percent_decode(input)),
                                           uts46)} })

\* utf8_percent_encode(input, CONTROLS): the C0 controls, U+007F and every
\* byte of a character outside ASCII are written as "%" and two hex digits
RECURSIVE percent_encode_controls(_)
percent_encode_controls(s) ==
    IF Len(s) = 0 THEN << >>
    ELSE Only({ IF cp \in 32..126 THEN << s[1] >>
                ELSE Concat([k \in 1..Len(Utf8Bytes(cp)) |->
                                percent_encode_byte(Utf8Bytes(cp)[k])]) :
                cp \in {CodePoint(s[1])} })
         \o percent_encode_controls(Tail(s))

\* url::Host::parse_opaque for any other scheme: [ok, host].  The encoded
\* text replaces the input when the encoder gives it in two pieces or more
\* (a piece is one encoded byte or a run of bytes left as they are); an
\* input that is one encoded byte alone is kept as it was written.
Host_parse_opaque(input) ==
    LET fail == [ok |-> FALSE, host |-> << >>]
    IN  IF Len(input) > 0 /\ input[1] = "["
        THEN IF input[Len(input)] # "]" THEN fail
             ELSE Only({ IF v6.ok
                         THEN [ok |-> TRUE,
                               host |-> <<"[">> \o Ipv6_text(v6.segments) \o <<"]">>]
                         ELSE fail :
                         v6 \in {Ipv6_parse(SubSeq(input, 2, Len(input) - 1))} })
        ELSE IF \E i \in 1..Len(input) : input[i] \in ForbiddenHost THEN fail
        ELSE IF Len(input) = 1 /\ CodePoint(input[1]) \in (0..31) \cup {127}
        THEN [ok |-> TRUE, host |-> input]
        ELSE [ok |-> TRUE, host |-> percent_encode_controls(input)]

\* The url crate's parse_port: digits up to the end of the authority, at
\* most 65535; no digit at all is no port
port_ok(s) ==
    /\ \A i \in 1..Len(s) : IsDigit(s[i])
    /\ \E z \in {SubSeq(s, First(s, {"1","2","3","4","5","6","7","8","9"}), Len(s))} :
          Len(z) <= 5 /\ DecimalVal(z) <= 65535

\* The authority of a URL (after_double_slash): the userinfo ends at the
\* last "@", the host at the first ":" outside brackets, and what follows is
\* the port.  A host may be empty only after a scheme that is not special,
\* with no port and with no userinfo but "" or ":": [ok, scheme, has_host,
\* host]
parse_authority(scheme, special, authority, uts46) ==
    LET fail == [ok |-> FALSE, scheme |-> << >>, has_host |-> FALSE, host |-> << >>]
        no_host == [ok |-> TRUE, scheme |-> scheme, has_host |-> FALSE, host |-> << >>]
    IN  Only({ Only({ Only({
            IF special /\ Len(name) = 0 THEN fail
            ELSE IF Len(name) = 0 /\ (colon <= Len(hostport) \/ has_authority)
            THEN fail
            ELSE IF ~host.ok THEN fail
            ELSE IF colon <= Len(hostport)
                    /\ ~port_ok(SubSeq(hostport, colon + 1,
                                       colon + First(SubSeq(hostport, colon + 1,
                                                            Len(hostport)), {"\\"}) - 1))
            THEN fail
            ELSE IF Len(host.host) = 0 THEN no_host
            ELSE [ok |-> TRUE, scheme |-> scheme, has_host |-> TRUE,
                  host |-> host.host] :
            host \in {IF special THEN Host_parse(name, uts46)
                      ELSE IF Len(name) = 0 THEN [ok |-> TRUE, host |-> << >>]
                      ELSE Host_parse_opaque(name)} }) :
          name \in {SubSeq(hostport, 1, colon - 1)} }) :
        hostport \in {SubSeq(authority, Last(authority, "@") + 1, Len(authority))},
        has_authority \in {/\ Last(authority, "@") >= 2
                           /\ SubSeq(authority, 1, Last(authority, "@") - 1) # <<":">>},
        colon \in {Only({ IF \E i \in 1..Len(hp) :
                                hp[i] = ":" /\ (Last(SubSeq(hp, 1, i), "[")
                                                <= Last(SubSeq(hp, 1, i), "]"))
                          THEN CHOOSE i \in 1..Len(hp) :
                                 /\ hp[i] = ":"
                                 /\ Last(SubSeq(hp, 1, i), "[") <= Last(SubSeq(hp, 1, i), "]")
                                 /\ \A j \in 1..(i - 1) :
                                       ~(hp[j] = ":" /\ Last(SubSeq(hp, 1, j), "[")
                                                        <= Last(SubSeq(hp, 1, j), "]"))
                          ELSE Len(hp) + 1 :
                          hp \in {SubSeq(authority, Last(authority, "@") + 1,
                                         Len(authority))} })} })

\* The parser after the scheme: rest is what follows the ":".  After http,
\* https, ws, wss and ftp any run of slashes leads to the authority; after
\* file only two slashes lead to a host, which has no userinfo and no port
\* and is dropped when it is a drive letter or localhost; after any other
\* scheme "//" leads to the authority and there is no host without it, and
\* an authority that is "@" alone must end the input (parse_userinfo).
Url_parse_with_scheme(scheme, rest, uts46) ==
    LET file == scheme = <<"f","i","l","e">>
        special == scheme \in {<<"h","t","t","p">>, <<"h","t","t","p","s">>, <<"f","t","p">>, <<"w","s">>,
                               <<"w","s","s">>, <<"f","i","l","e">>}
        fail == [ok |-> FALSE, scheme |-> << >>, has_host |-> FALSE, host |-> << >>]
        no_host == [ok |-> TRUE, scheme |-> scheme, has_host |-> FALSE, host |-> << >>]
        Until(from, ends) ==
            SubSeq(rest, from, First(SubSeq(rest, from, Len(rest)), ends) + from - 2)
    IN  IF file
        THEN IF Len(rest) >= 2 /\ rest[1] \in {"/", "\\"} /\ rest[2] \in {"/", "\\"}
             THEN Only({
                    IF \/ Len(name) = 0
                       \/ (Len(name) = 2 /\ IsAlpha(name[1]) /\ name[2] \in {":", "|"})
                    THEN no_host
                    ELSE Only({ IF ~host.ok THEN fail
                                ELSE IF host.host = <<"l","o","c","a","l","h","o","s","t">>
                                THEN no_host
                                ELSE [ok |-> TRUE, scheme |-> scheme,
                                      has_host |-> TRUE, host |-> host.host] :
                                host \in {Host_parse(name, uts46)} }) :
                    name \in {Until(3, {"/", "\\", "?", "#"})} })
             ELSE no_host
        ELSE IF special
        THEN parse_authority(scheme, TRUE,
                 Until(First(rest, {rest[i] : i \in 1..Len(rest)} \ {"/", "\\"}),
                       {"/", "\\", "?", "#"}),
                 uts46)
        ELSE IF Len(rest) >= 2 /\ rest[1] = "/" /\ rest[2] = "/"
        THEN IF Until(3, {"/", "?", "#"}) = <<"@">> /\ Len(rest) > 3 THEN fail
             ELSE parse_authority(scheme, FALSE, Until(3, {"/", "?", "#"}), uts46)
        ELSE no_host

\* The uts46 of a call whose domain is ASCII and has no "xn--" label: no
\* answer is asked for
NotConsulted == [ok |-> FALSE, domain |-> << >>]

\* Url::parse with no base URL: [ok, scheme, has_host, host].  The C0
\* controls and spaces around the input are dropped, tabs and newlines
\* anywhere in it; the scheme, lower-cased, ends at the first ":".
Url_parse(input, uts46) ==
    LET fail == [ok |-> FALSE, scheme |-> << >>, has_host |-> FALSE, host |-> << >>]
        text == {input[i] : i \in 1..Len(input)}
                \ ({C0Controls[i] : i \in 1..32} \cup {" "})
    IN  Only({ Only({
            IF \/ colon > Len(u) \/ colon = 1
               \/ ~IsAlpha(u[1])
               \/ \E i \in 2..(colon - 1) :
                     ~(IsAlpha(u[i]) \/ IsDigit(u[i]) \/ u[i] \in {"+", "-", "."})
            THEN fail
            ELSE Only({ Url_parse_with_scheme(scheme, rest, uts46) :
                        scheme \in {to_lowercase(SubSeq(u, 1, colon - 1))},
                        rest \in {SubSeq(u, colon + 1, Len(u))} }) :
            colon \in {First(u, {":"})} }) :
          u \in {SelectSeq(SubSeq(input, First(input, text),
                                  Len(input) -
                                    (First([i \in 1..Len(input) |-> input[Len(input) + 1 - i]],
                                           text) - 1)),
                           LAMBDA c : c \notin {"\t", "\n", "\r"})} })

\* SecurityService::new: blocked_domains
blocked_domains ==
    << <<"l","o","c","a","l","h","o","s","t">>, <<"1","2","7",".","0",".","0",".","1">>,
       <<"0",".","0",".","0",".","0">>, <<":",":","1">> >>

is_blocked_host(host) ==
    \E host_lower \in {to_lowercase(host)} :
        \E i \in 1..Len(blocked_domains) :
            \/ host_lower = blocked_domains[i]
            \/ EndsWith(host_lower, <<".">> \o blocked_domains[i])

is_localhost_ip(host) ==
    \E ip \in {ParseIpAddr(host)} :
        IF ip.ok
        THEN IF ip.v6
             THEN ip.segments = <<0, 0, 0, 0, 0, 0, 0, 1>>
             ELSE \/ ip.octets[1] = 127
                  \/ ip.octets[1] = 10
                  \/ (ip.octets[1] = 172 /\ ip.octets[2] \in 16..31)
                  \/ (ip.octets[1] = 192 /\ ip.octets[2] = 168)
                  \/ (ip.octets[1] = 169 /\ ip.octets[2] = 254)
        ELSE \E p \in {<<"1","2","7",".">>, <<"1","9","2",".","1","6","8",".">>,
                       <<"1","0",".">>, <<"1","7","2",".","1","6",".">>,
                       <<"1","6","9",".","2","5","4",".">>} : StartsWith(host, p)

\* validate_url without its last check: a host with no '.' is accepted
validate_url_any_host(url_str, uts46) ==
    Only({ IF ~url.ok
           THEN [ok |-> FALSE, err |-> InvalidUrl("format"), host |-> << >>]
           ELSE IF url.scheme \notin {<<"h","t","t","p">>, <<"h","t","t","p","s">>}
           THEN [ok |-> FALSE, err |-> InvalidUrl("scheme"), host |-> << >>]
           ELSE IF ~url.has_host
           THEN [ok |-> FALSE, err |-> InvalidUrl("no_host"), host |-> << >>]
           ELSE IF is_blocked_host(url.host)
           THEN [ok |-> FALSE, err |-> BlockedUrl("blocked_host"), host |-> << >>]
           ELSE IF is_localhost_ip(url.host)
           THEN [ok |-> FALSE, err |-> BlockedUrl("internal_ip"), host |-> << >>]
           ELSE [ok |-> TRUE, err |-> NoError, host |-> url.host] :
           url \in {Url_parse(url_str, uts46)} })

\* SecurityService::validate_url: [ok, err, host]
validate_url(url_str, uts46) ==
    Only({ IF ~url.ok
           THEN [ok |-> FALSE, err |-> InvalidUrl("format"), host |-> << >>]
           ELSE IF url.scheme \notin {<<"h","t","t","p">>, <<"h","t","t","p","s">>}
           THEN [ok |-> FALSE, err |-> InvalidUrl("scheme"), host |-> << >>]
           ELSE IF ~url.has_host
           THEN [ok |-> FALSE, err |-> InvalidUrl("no_host"), host |-> << >>]
           ELSE IF is_blocked_host(url.host)
           THEN [ok |-> FALSE, err |-> BlockedUrl("blocked_host"), host |-> << >>]
           ELSE IF is_localhost_ip(url.host)
           THEN [ok |-> FALSE, err |-> BlockedUrl("internal_ip"), host |-> << >>]
           ELSE IF /\ \A i \in 1..Len(url.host) : url.host[i] # "."
                   /\ \A i \in 1..Len(blocked_domains) : blocked_domains[i] # url.host
           THEN [ok |-> FALSE, err |-> InvalidUrl("tld"), host |-> << >>]
           ELSE [ok |-> TRUE, err |-> NoError, host |-> url.host] :
           url \in {Url_parse(url_str, uts46)} })

\* ------------------------------------------------------ security and cache
\* Window of check_rate_limit and cool-down of the circuit breaker (seconds)
RATE_WINDOW_SECS == 60
CIRCUIT_OPEN_SECS == 60
CIRCUIT_FAILURE_THRESHOLD == 5

\* Config values the model runs with (config.rs gives the defaults)
max_requests_per_page == 2
cache_ttl == 2
max_domains_per_page == 1

\* Option<u64> / Option<Instant>
None == [some |-> FALSE, v |-> 0]
Some(x) == [some |-> TRUE, v |-> x]

Tasks == 1..NumTasks

VARIABLES
    browser,            \* BrowserPool.browser: "None" or "Some"
    is_healthy,         \* BrowserPool.is_healthy
    recreation_count,   \* BrowserPool.recreation_count
    permits,            \* BrowserPool.semaphore: available permits
    recreation_lock,    \* BrowserPool.recreation_lock: 0 or the holding task
    readers,            \* tasks holding a read guard of BrowserPool.browser
    browser_pool_size,  \* Config.browser_pool_size
    env,                \* the environment of this run: how many clients send
                        \* a request, how many calls may fail
    obs,                \* the service call made last, with what it returned
    task,               \* per task: its request, locals and position
    faults,             \* non-ok outcomes the environment has produced
    now,                \* Instant::now(), in seconds
    circuit_breakers,   \* SecurityService.circuit_breakers
    rate_limits,        \* SecurityService.rate_limits
    cache,              \* CacheService.cache
    launches,           \* history: create_browser calls started and succeeded
    epoch               \* history: launches and calls since the last invalidation

poolVars == << browser, is_healthy, recreation_count, permits, recreation_lock,
               readers, browser_pool_size, env, obs >>
gateVars == << now, circuit_breakers, rate_limits, cache >>
histVars == << launches, epoch >>
\* What the security and cache services never touch
browserVars == << browser, is_healthy, recreation_count, permits, recreation_lock,
                  readers, browser_pool_size, env, task, faults, launches, epoch >>
vars == << browser, is_healthy, recreation_count, permits, recreation_lock,
           readers, browser_pool_size, env, obs, task, faults, now, circuit_breakers,
           rate_limits, cache, launches, epoch >>

\* A breaker that is still open at the instant open_until
check_circuit_breaker_inclusive(cb, domain, t) ==
    ~ ( /\ domain \in DOMAIN cb
        /\ cb[domain].open_until.some
        /\ t <= cb[domain].open_until.v )

\* SecurityService::check_circuit_breaker: TRUE iff Ok(())
check_circuit_breaker(cb, domain, t) ==
    ~ ( /\ domain \in DOMAIN cb
        /\ cb[domain].open_until.some
        /\ t < cb[domain].open_until.v )

\* A record_success that resets the counter and leaves the breaker open
record_success_keeps_open(cb, domain) ==
    IF domain \in DOMAIN cb
    THEN [cb EXCEPT ![domain] = [@ EXCEPT !.failures = 0]]
    ELSE cb

\* SecurityService::record_success
record_success(cb, domain) ==
    IF domain \in DOMAIN cb
    THEN [cb EXCEPT ![domain] = [@ EXCEPT !.failures = 0, !.open_until = None]]
    ELSE cb

\* A record_failure that starts counting afresh once the cooldown is over
record_failure_fresh_after_cooldown(cb, domain, t) ==
    LET none == [failures |-> 0, last_failure |-> t, open_until |-> None]
        found == IF domain \in DOMAIN cb THEN cb[domain] ELSE none
        entry == IF found.open_until.some /\ t >= found.open_until.v THEN none ELSE found
        failures == entry.failures + 1
    IN  (domain :> [failures |-> failures,
                    last_failure |-> t,
                    open_until |-> IF failures >= CIRCUIT_FAILURE_THRESHOLD
                                   THEN Some(t + CIRCUIT_OPEN_SECS)
                                   ELSE entry.open_until]) @@ cb

\* SecurityService::record_failure
record_failure(cb, domain, t) ==
    LET entry == IF domain \in DOMAIN cb THEN cb[domain]
                 ELSE [failures |-> 0, last_failure |-> t, open_until |-> None]
        failures == entry.failures + 1
    IN  (domain :> [failures |-> failures,
                    last_failure |-> t,
                    open_until |-> IF failures >= CIRCUIT_FAILURE_THRESHOLD
                                   THEN Some(t + CIRCUIT_OPEN_SECS)
                                   ELSE entry.open_until]) @@ cb

\* A window that is reset as soon as RATE_WINDOW_SECS have passed
rate_limit_entry_early_reset(rl, domain, t) ==
    LET entry == IF domain \in DOMAIN rl THEN rl[domain]
                 ELSE [requests |-> 0, window_start |-> t]
        fresh == IF t - entry.window_start >= RATE_WINDOW_SECS
                 THEN [requests |-> 0, window_start |-> t]
                 ELSE entry
    IN  [fresh EXCEPT !.requests = @ + 1]

\* SecurityService::check_rate_limit: the entry it leaves for the domain
rate_limit_entry(rl, domain, t) ==
    LET entry == IF domain \in DOMAIN rl THEN rl[domain]
                 ELSE [requests |-> 0, window_start |-> t]
        fresh == IF t - entry.window_start > RATE_WINDOW_SECS
                 THEN [requests |-> 0, window_start |-> t]
                 ELSE entry
    IN  [fresh EXCEPT !.requests = @ + 1]

\* A limiter that refuses the call which reaches the limit
check_rate_limit_one_short(rl, domain, t) ==
    LET entry == rate_limit_entry(rl, domain, t)
    IN  [ok |-> ~(entry.requests >= max_requests_per_page),
         rl |-> (domain :> entry) @@ rl]

\* SecurityService::check_rate_limit: [ok, rl] (ok iff Ok(()))
check_rate_limit(rl, domain, t) ==
    LET entry == rate_limit_entry(rl, domain, t)
    IN  [ok |-> ~(entry.requests > max_requests_per_page),
         rl |-> (domain :> entry) @@ rl]

\* format!("{}:{:?}", options.url, options.respond_with)
cache_key(url, respond_with) == << url, respond_with >>

\* A lookup that ignores the tolerance asked for
get_with_tolerance_ttl_only(c, key, tolerance_secs, t) ==
    IF key \in DOMAIN c
    THEN LET entry == c[key]
         IN  IF t - entry.created_at < entry.ttl
             THEN [hit |-> TRUE, response |-> [entry.response EXCEPT !.cached = TRUE]]
             ELSE [hit |-> FALSE, response |-> entry.response]
    ELSE [hit |-> FALSE, response |-> [url |-> "", respond_with |-> "", content |-> 0,
                                       cached |-> FALSE]]

\* A lookup whose tolerance cannot extend the ttl of the entry
get_with_tolerance_capped(c, key, tolerance_secs, t) ==
    IF key \in DOMAIN c
    THEN LET entry == c[key]
             max_age == IF tolerance_secs.some /\ tolerance_secs.v < entry.ttl
                        THEN tolerance_secs.v ELSE entry.ttl
         IN  IF t - entry.created_at < max_age
             THEN [hit |-> TRUE, response |-> [entry.response EXCEPT !.cached = TRUE]]
             ELSE [hit |-> FALSE, response |-> entry.response]
    ELSE [hit |-> FALSE, response |-> [url |-> "", respond_with |-> "", content |-> 0,
                                       cached |-> FALSE]]

\* CacheService::get_with_tolerance: [hit, response]
get_with_tolerance(c, key, tolerance_secs, t) ==
    IF key \in DOMAIN c
    THEN LET entry == c[key]
             max_age == IF tolerance_secs.some THEN tolerance_secs.v ELSE entry.ttl
         IN  IF t - entry.created_at < max_age
             THEN [hit |-> TRUE, response |-> [entry.response EXCEPT !.cached = TRUE]]
             ELSE [hit |-> FALSE, response |-> entry.response]
    ELSE [hit |-> FALSE, response |-> [url |-> "", respond_with |-> "", content |-> 0,
                                       cached |-> FALSE]]

\* CacheService::get up to drop(entry) (cache.rs 26-34), under the read
\* guard of the key: [hit, response, expired]
cache_get(c, key, t) ==
    IF key \in DOMAIN c
    THEN LET entry == c[key]
         IN  IF t - entry.created_at < entry.ttl
             THEN [hit |-> TRUE, response |-> [entry.response EXCEPT !.cached = TRUE],
                   expired |-> FALSE]
             ELSE [hit |-> FALSE, response |-> entry.response, expired |-> TRUE]
    ELSE [hit |-> FALSE, response |-> [url |-> "", respond_with |-> "", content |-> 0,
                                       cached |-> FALSE],
          expired |-> FALSE]

\* CacheService::invalidate, and the remove of CacheService::get:
\* self.cache.remove(key)
invalidate(c, key) == [k \in DOMAIN c \ {key} |-> c[k]]

\* CacheService::cleanup_expired: [removed, cache]
cleanup_expired(c, t) ==
    LET keep == {k \in DOMAIN c : t - c[k].created_at < c[k].ttl}
    IN  [removed |-> Cardinality(DOMAIN c \ keep), cache |-> [k \in keep |-> c[k]]]

\* CacheService::set
cache_set(c, key, response, ttl_secs, t) ==
    (key :> [response |-> response,
             created_at |-> t,
             ttl |-> IF ttl_secs.some THEN ttl_secs.v ELSE cache_ttl]) @@ c

\* ------------------------------------------------------------------- tasks
\* The requests the handlers are given: the route, LoadRequest.url and the
\* CrawlerOptions fields parse_options reads from the headers (for the two
\* selectors: whether the header is there).
Inputs ==
    { [path |-> "load", url |-> <<"h","t","t","p","s",":","/","/","e","x","a","m","p","l","e",".","c","o","m">>, respond_with |-> "Default",
       cookies |-> FALSE, wait_for_selector |-> FALSE, no_cache |-> FALSE,
       cache_tolerance |-> None, target_selector |-> TRUE,
       remove_selector |-> FALSE],
      [path |-> "load", url |-> <<"h","t","t","p",":","/","/","l","o","c","a","l","h","o","s","t",":","8","0","8","0","/","x">>, respond_with |-> "Default",
       cookies |-> FALSE, wait_for_selector |-> FALSE, no_cache |-> FALSE,
       cache_tolerance |-> None, target_selector |-> FALSE,
       remove_selector |-> TRUE],
      [path |-> "batch", url |-> <<"h","t","t","p",":","/","/","l","o","c","a","l","h","o","s","t",":","8","0","8","0","/","x">>, respond_with |-> "Screenshot",
       cookies |-> TRUE, wait_for_selector |-> TRUE, no_cache |-> TRUE,
       cache_tolerance |-> None, target_selector |-> TRUE,
       remove_selector |-> TRUE],
      [path |-> "openwebui", url |-> <<"h","t","t","p",":","/","/","l","o","c","a","l","h","o","s","t",":","8","0","8","0","/","x">>, respond_with |-> "Default",
       cookies |-> FALSE, wait_for_selector |-> FALSE, no_cache |-> FALSE,
       cache_tolerance |-> None, target_selector |-> FALSE,
       remove_selector |-> TRUE] }

\* No Result yet / no response yet
NoResult == [status |-> "none", err |-> NoError]
NoResponse == [code |-> 0, document |-> FALSE, cached |-> FALSE, content |-> None]

\* A LoadRequest.url of a scheme validate_url does not accept
FtpUrl == <<"f","t","p",":","/","/","e","x","a","m","p","l","e",".","c","o","m","/","x">>

\* Every URL of the requests with what validate_url answers for it, computed
\* once; their hosts are plain ASCII, which UTS 46 has no say on
validated == [u \in {i.url : i \in Inputs} \cup {FtpUrl} |-> validate_url(u, NotConsulted)]

\* The entries of a batch: a URL or a string that is not one
BatchUrls == {<<"h","t","t","p","s",":","/","/","e","x","a","m","p","l","e",".","c","o","m">>, <<"n","o","t"," ","a"," ","u","r","l">>}

\* Whether Url::parse accepts options.url (readability.rs 17), computed once
url_parses == [u \in {i.url : i \in Inputs} \cup BatchUrls |-> Url_parse(u, NotConsulted).ok]

\* An into_response that answers 500 for every variant it does not name
status_code_unnamed_500(e) ==
    CASE e.kind = "InvalidUrl" -> 400
      [] e.kind = "BlockedUrl" -> 403
      [] e.kind = "Timeout" -> 504
      [] e.kind = "RateLimitExceeded" -> 429
      [] e.kind = "CircuitBreakerOpen" -> 503
      [] OTHER -> 500

\* AppError::into_response: the status code (error.rs 62-80)
status_code(e) ==
    CASE e.kind \in {"Unauthorized", "InvalidApiKey"} -> 401
      [] e.kind \in {"InvalidUrl", "TooManyDomains"} -> 400
      [] e.kind = "BlockedUrl" -> 403
      [] e.kind = "Timeout" -> 504
      [] e.kind = "RateLimitExceeded" -> 429
      [] e.kind = "CircuitBreakerOpen" -> 503
      [] e.kind \in {"BrowserError", "ScrapingError", "ExtractionError",
                     "MarkdownError", "ScreenshotError", "Internal",
                     "ConfigError", "IoError"} -> 500

\* AppError::into_response: the status and the JSON body with its code field
\* (error.rs 82-87)
into_response(e) ==
    [status |-> status_code(e), body |-> [error |-> e, code |-> status_code(e)]]

IdleTask ==
    [pc |-> "idle", in |-> CHOOSE i \in Inputs : TRUE,
     attempt |-> 0,          \* process_url_with_retry: attempt
     last_error |-> NoError, \* process_url_with_retry: last_error
     err |-> NoError,        \* the Err the last process_url returned
     gp_attempt |-> 0,       \* get_page: attempt
     gp_last |-> NoError,    \* get_page: last_error
     inv_ret |-> "none",     \* caller of the invalidate_browser in progress
     page |-> FALSE,         \* holds a Page
     result |-> NoResult,    \* what process_url_with_retry returned
     response |-> NoResponse,\* what the handler answered
     pu_calls |-> 0,         \* history: process_url calls of this request
     pwr_inv |-> 0,          \* history: invalidate_browser calls made by
                             \*          process_url_with_retry for this request
     arrived |-> 0,          \* history: the clock when load_handler got the
                             \*          request, until the pipeline is entered
     opened |-> FALSE,       \* history: the request has called new_page
     open1_conn |-> FALSE]   \* history: its first new_page call failed with
                             \*          a connection-classified error

\* Positions inside ensure_browser, and those holding the recreation lock.
\* At "eb_check1" a task has the permit or sleeps before a retry (browser.rs
\* 172-180): it has made no step of ensure_browser yet
EnsurePcs == {"eb_read1", "eb_lock", "eb_read2", "eb_store", "eb_create",
              "eb_publish", "eb_sethealthy", "eb_count", "hung_launch"}
LockedPcs == {"eb_read2", "eb_store", "eb_create", "eb_publish",
              "eb_sethealthy", "eb_count", "hung_launch"}
\* create_browser has returned Ok, recreation_count is not yet incremented
PostCreatePcs == {"eb_publish", "eb_sethealthy", "eb_count"}
\* Positions inside get_page (the permit is held)
GetPagePcs == EnsurePcs \cup {"eb_check1", "gp_hc", "hc_read", "hc_call",
                              "tgp_read", "tgp_newpage", "tgp_setup"}

InGetPage(r) ==
    \/ r.pc \in GetPagePcs
    \/ (r.pc \in {"inv_store", "inv_take"} /\ r.inv_ret = "gp")

Set(t, r) == task' = [task EXCEPT ![t] = r]

\* The environments explored: NumTasks concurrent clients with few failing
\* calls, or one client with more of them
Environments ==
    { [clients |-> NumTasks, budget |-> ConcurrentFaults],
      [clients |-> 1, budget |-> MaxFaults] }

\* What a call to the browser driver may answer: Ok, an error whose text is
\* DrvText, or nothing at all
DriverOutcomes == {"ok", "closed", "notfound", "hang"}
Outcomes == IF faults < env.budget THEN DriverOutcomes ELSE {"ok"}

SetupSites == {"none", "set_user_agent", "set_cookies"}
NavSites == {"none", "goto", "ready_state", "selector", "content"}
ShotSites == {"none", "screenshot", "save_screenshot"}

Charge(o) == faults' = IF o = "ok" THEN faults ELSE faults + 1

\* An invalidation starts a new epoch; it is clean when no ensure_browser
\* call is in progress at that moment.
NewEpoch(count) ==
    [clean |-> \A u \in Tasks : task[u].pc \notin EnsurePcs,
     ok |-> 0, returned |-> FALSE, base |-> count]

\* ------------------------------------------------------------ the handlers
NewRequest(in) == [IdleTask EXCEPT !.in = in]

\* The handler answers and its locals are gone: the status code, whether a
\* document is in the body, and its `cached` flag
Answer(code, document, cached) ==
    [IdleTask EXCEPT !.pc = "done",
                     !.response = [code |-> code, document |-> document,
                                   cached |-> cached, content |-> None]]

\* The handler answers 200 with a LoadResponse
Deliver(response) ==
    [Answer(200, TRUE, response.cached) EXCEPT
        !.response.content = Some(response.content)]

\* A load_handler that consults the cache only for requests without cookies
LooksUp_plain_only(in) == ~in.no_cache /\ ~in.cookies

\* A load_handler that looks every request up in the cache
LooksUpAlways(in) == TRUE

\* load_handler consults the cache (loader.rs 39)
LooksUp(in) == ~in.no_cache

\* A load_handler that stores whatever process_url_with_retry returned
StoresOnError(r) == ~r.in.no_cache

\* load_handler stores the response (loader.rs 47-54): the `?` has passed
Stores(r) == r.result.status = "ok" /\ ~r.in.no_cache

\* process_url_with_retry is entered: the first process_url call
EnterPipeline(r) ==
    [r EXCEPT !.pc = "gp_acquire", !.attempt = 0, !.pu_calls = 1, !.arrived = 0]

\* load_handler has let the request pass the circuit breaker: its next call
\* is check_rate_limit
PassBreaker(in) == [NewRequest(in) EXCEPT !.pc = "check_rate", !.arrived = now]

\* A load_handler that counts the request for its host before validating it
LoadStart_counts_refused(t, in) ==
    /\ task[t].pc = "idle"
    /\ t <= env.clients
    /\ in.path = "load"
    /\ LET v == validated[in.url]
       IN  /\ rate_limits' = check_rate_limit(rate_limits, v.host, now).rl
           /\ IF ~v.ok
              THEN Set(t, Answer(status_code(v.err), FALSE, FALSE))
              ELSE IF ~check_circuit_breaker(circuit_breakers, v.host, now)
              THEN Set(t, Answer(status_code(CircuitBreakerOpen), FALSE, FALSE))
              ELSE Set(t, PassBreaker(in))
    /\ UNCHANGED << poolVars, faults, now, circuit_breakers, cache, histVars >>

\* A load_handler that asks the rate limiter before the circuit breaker
LoadStart_limiter_first(t, in) ==
    /\ task[t].pc = "idle"
    /\ t <= env.clients
    /\ in.path = "load"
    /\ LET v == validated[in.url]
           rl == check_rate_limit(rate_limits, v.host, now)
       IN  IF ~v.ok
           THEN Set(t, Answer(status_code(v.err), FALSE, FALSE)) /\ UNCHANGED rate_limits
           ELSE /\ rate_limits' = rl.rl
                /\ IF ~rl.ok
                   THEN Set(t, Answer(status_code(RateLimitExceeded), FALSE, FALSE))
                   ELSE IF ~check_circuit_breaker(circuit_breakers, v.host, now)
                   THEN Set(t, Answer(status_code(CircuitBreakerOpen), FALSE, FALSE))
                   ELSE IF LooksUp(in)
                   THEN Set(t, [PassBreaker(in) EXCEPT !.pc = "cache_get"])
                   ELSE Set(t, EnterPipeline(NewRequest(in)))
    /\ UNCHANGED << poolVars, faults, now, circuit_breakers, cache, histVars >>

\* load_handler from parse_options to check_circuit_breaker (loader.rs
\* 29-34): validate_url reads no shared state, check_circuit_breaker takes
\* the breakers' lock and reads the clock
LoadStart(t, in) ==
    /\ task[t].pc = "idle"
    /\ t <= env.clients
    /\ in.path = "load"
    /\ LET v == validated[in.url]
       IN  IF ~v.ok
           THEN Set(t, Answer(status_code(v.err), FALSE, FALSE))
           ELSE IF ~check_circuit_breaker(circuit_breakers, v.host, now)
           THEN Set(t, Answer(status_code(CircuitBreakerOpen), FALSE, FALSE))
           ELSE Set(t, PassBreaker(in))
    /\ UNCHANGED << poolVars, faults, gateVars, histVars >>

\* load_handler calls check_rate_limit (loader.rs 36), which takes the
\* limiter's lock and reads the clock for itself (security.rs 138-160);
\* with no_cache the handler goes on to process_url_with_retry
LoadRateLimit(t) ==
    /\ task[t].pc = "check_rate"
    /\ LET r == task[t]
           rl == check_rate_limit(rate_limits, validated[r.in.url].host, now)
       IN  /\ rate_limits' = rl.rl
           /\ IF ~rl.ok
              THEN Set(t, Answer(status_code(RateLimitExceeded), FALSE, FALSE))
              ELSE IF LooksUp(r.in)
              THEN Set(t, [r EXCEPT !.pc = "cache_get"])
              ELSE Set(t, EnterPipeline(r))
    /\ UNCHANGED << poolVars, faults, now, circuit_breakers, cache, histVars >>

\* load_handler looks the fingerprint up (loader.rs 38-44):
\* get_with_tolerance reads the entry and the clock; a hit is the answer,
\* after a miss the handler calls process_url_with_retry
LoadLookup(t) ==
    /\ task[t].pc = "cache_get"
    /\ LET r == task[t]
           key == cache_key(r.in.url, r.in.respond_with)
           got == get_with_tolerance(cache, key, r.in.cache_tolerance, now)
       IN  IF got.hit
           THEN Set(t, Deliver(got.response))
           ELSE Set(t, EnterPipeline(r))
    /\ UNCHANGED << poolVars, faults, gateVars, histVars >>

\* batch_load_handler: one per-URL future up to its call of
\* process_url_with_retry (loader.rs 86-94); check_domain_count has passed
BatchStart(t, in) ==
    /\ task[t].pc = "idle"
    /\ t <= env.clients
    /\ in.path = "batch"
    /\ Set(t, EnterPipeline(NewRequest(in)))
    /\ UNCHANGED << poolVars, faults, gateVars, histVars >>

\* openwebui_handler: one per-URL future (loader.rs 244-252)
OpenWebUIStart(t, in) ==
    /\ task[t].pc = "idle"
    /\ t <= env.clients
    /\ in.path = "openwebui"
    /\ Set(t, EnterPipeline(NewRequest(in)))
    /\ UNCHANGED << poolVars, faults, gateVars, histVars >>

\* The LoadResponse process_url_with_retry returned to load_handler
Response(r, content) ==
    [url |-> r.in.url, respond_with |-> r.in.respond_with,
     content |-> content, cached |-> FALSE]

\* Where load_handler goes on with the result of process_url_with_retry
\* (loader.rs 47-62): the `?` returns the error; else, after record_success,
\* the cache.set call if the request allows it, else the answer
AfterRecord(r) ==
    IF Stores(r)
    THEN [r EXCEPT !.pc = "cache_set", !.response.content = Some(now)]
    ELSE IF r.result.status = "ok"
    THEN Deliver(Response(r, now))
    ELSE Answer(status_code(r.result.err), FALSE, FALSE)

\* A load_handler that counts a failed pipeline run for the domain
HandlerTail_records_failure(t) ==
    LET r == task[t]
        domain == validated[r.in.url].host
        ok == r.result.status = "ok"
    IN  /\ r.pc = "pwr_ret"
        /\ Set(t, IF r.in.path = "load" THEN AfterRecord(r)
                   ELSE Answer(200, ok, FALSE))
        /\ circuit_breakers' = IF r.in.path = "load" /\ ok
                               THEN record_success(circuit_breakers, domain)
                               ELSE IF r.in.path = "load"
                               THEN record_failure(circuit_breakers, domain, now)
                               ELSE circuit_breakers
        /\ UNCHANGED << poolVars, faults, now, rate_limits, cache, histVars >>

\* What the handler does with the result of process_url_with_retry:
\* load_handler returns the error, or records the success (loader.rs 47-49);
\* the batch handlers keep the result per URL (loader.rs 94-111, 252-269)
HandlerTail(t) ==
    LET r == task[t]
        domain == validated[r.in.url].host
        ok == r.result.status = "ok"
    IN  /\ r.pc = "pwr_ret"
        /\ Set(t, IF r.in.path = "load" THEN AfterRecord(r)
                   ELSE Answer(200, ok, FALSE))
        /\ circuit_breakers' = IF r.in.path = "load" /\ ok
                               THEN record_success(circuit_breakers, domain)
                               ELSE circuit_breakers
        /\ UNCHANGED << poolVars, faults, now, rate_limits, cache, histVars >>

\* load_handler stores the response and answers (loader.rs 51-62)
HandlerStore(t) ==
    LET r == task[t]
        response == Response(r, r.response.content.v)
    IN  /\ r.pc = "cache_set"
        /\ Set(t, Deliver(response))
        /\ cache' = cache_set(cache, cache_key(r.in.url, r.in.respond_with),
                              response, r.in.cache_tolerance, now)
        /\ UNCHANGED << poolVars, faults, now, circuit_breakers, rate_limits, histVars >>

\* --------------------------------------------------------------- get_page
\* A get_page whose permit is never given back
PermitsNeverReturned(p, returned_ok) == p
PermitsLeakedOnError(p, returned_ok) == IF returned_ok THEN p + 1 ELSE p
\* Dropping `_permit` when get_page returns (browser.rs 172, 198, 205, 211)
PermitsAfterReturn(p, returned_ok) == p + 1

RetriesAlways(e) == TRUE
\* Whether process_url_with_retry retries after an Err(e) (loader.rs 147)
Retries(e) == classified_connection(e)

\* process_url_with_retry returns: the handler takes over
PwrReturn(r, status, e) ==
    [r EXCEPT !.pc = "pwr_ret", !.page = FALSE,
              !.result = [status |-> status, err |-> e]]

\* process_url returns Err(e) (the page, if any, is dropped) and
\* process_url_with_retry matches on it (loader.rs 144-158): a connection
\* error makes it call invalidate_browser, any other is returned at once
PuReturnErr(r, e) ==
    LET failed == [r EXCEPT !.err = e, !.page = FALSE, !.gp_attempt = 0,
                            !.gp_last = NoError]
    IN  IF Retries(e)
        THEN [failed EXCEPT !.pc = "inv_store", !.inv_ret = "pwr", !.pwr_inv = @ + 1]
        ELSE PwrReturn(failed, "err", e)

\* get_page returns Err(e): process_url returns it with `?` (loader.rs 174)
GpReturnErr(r, e) == PuReturnErr(r, e)

\* `continue` in the loop of get_page: the next attempt, or the loop's end
\* (browser.rs 177-213)
GpExhausted(r) == r.gp_attempt + 1 >= MAX_RETRIES
GpContinue(r) ==
    IF GpExhausted(r)
    THEN GpReturnErr(r, IF r.gp_last = NoError
                        THEN BrowserError("max_retries", "none")
                        ELSE r.gp_last)
    ELSE [r EXCEPT !.gp_attempt = @ + 1, !.pc = "eb_check1"]

\* History: an ensure_browser call has returned in this epoch
Returned == [epoch EXCEPT !.returned = TRUE]

\* ensure_browser returned Ok: `attempt > 0 ||` decides without a load that
\* the health check runs (browser.rs 189)
AfterEnsure(r) == [r EXCEPT !.pc = IF r.gp_attempt > 0 THEN "hc_read" ELSE "gp_hc"]

\* semaphore.acquire().await (browser.rs 172-175)
GpAcquire(t) ==
    /\ task[t].pc = "gp_acquire"
    /\ permits > 0
    /\ permits' = permits - 1
    /\ Set(t, [task[t] EXCEPT !.pc = "eb_check1", !.gp_attempt = 0, !.gp_last = NoError])
    /\ UNCHANGED << browser, is_healthy, recreation_count, recreation_lock, readers,
                    browser_pool_size, env, obs, faults, gateVars, histVars >>

\* ensure_browser: is_healthy.load() of the fast path (browser.rs 87)
EbCheck1(t) ==
    /\ task[t].pc = "eb_check1"
    /\ Set(t, [task[t] EXCEPT !.pc = IF is_healthy THEN "eb_read1" ELSE "eb_lock"])
    /\ UNCHANGED << poolVars, faults, gateVars, histVars >>

\* ensure_browser: browser.read() of the fast path (browser.rs 88-91)
EbRead1(t) ==
    /\ task[t].pc = "eb_read1"
    /\ Set(t, IF browser = "Some" THEN AfterEnsure(task[t])
               ELSE [task[t] EXCEPT !.pc = "eb_lock"])
    /\ epoch' = IF browser = "Some" THEN Returned ELSE epoch
    /\ UNCHANGED << poolVars, faults, gateVars, launches >>

\* ensure_browser: recreation_lock.lock().await and the second
\* is_healthy.load() (browser.rs 94-96); nothing another task does between
\* the two is visible to this one
EbLock(t) ==
    /\ task[t].pc = "eb_lock"
    /\ recreation_lock = 0
    /\ recreation_lock' = t
    /\ Set(t, [task[t] EXCEPT !.pc = IF is_healthy THEN "eb_read2" ELSE "eb_store"])
    /\ UNCHANGED << browser, is_healthy, recreation_count, permits, readers,
                    browser_pool_size, env, obs, faults, gateVars, histVars >>

RecheckNever(b) == FALSE
\* Whether the locked re-check returns without launching (browser.rs 97-100)
RecheckReturns(b) == b = "Some"

\* ensure_browser: browser.read() under the lock (browser.rs 97-100)
EbRead2(t) ==
    /\ task[t].pc = "eb_read2"
    /\ IF RecheckReturns(browser)
       THEN /\ recreation_lock' = 0
            /\ Set(t, AfterEnsure(task[t]))
            /\ epoch' = Returned
       ELSE /\ Set(t, [task[t] EXCEPT !.pc = "eb_store"])
            /\ UNCHANGED << recreation_lock, epoch >>
    /\ UNCHANGED << browser, is_healthy, recreation_count, permits, readers,
                    browser_pool_size, env, obs, faults, gateVars, launches >>

\* ensure_browser: is_healthy.store(false) before the launch (browser.rs 104)
EbStore(t) ==
    /\ task[t].pc = "eb_store"
    /\ is_healthy' = FALSE
    /\ Set(t, [task[t] EXCEPT !.pc = "eb_create"])
    /\ UNCHANGED << browser, recreation_count, permits, recreation_lock, readers,
                    browser_pool_size, env, obs, faults, gateVars, histVars >>

\* ensure_browser: create_browser(..).await? (browser.rs 106, 45-84).  No
\* deadline wraps Browser::launch: a launch that never answers is awaited
\* for ever, with the recreation lock held.
EbCreate(t, o) ==
    LET r == task[t]
        e == BrowserError("launch", o)
        failed == [r EXCEPT !.gp_last = e]
    IN  /\ task[t].pc = "eb_create"
        /\ o \in Outcomes
        /\ Charge(o)
        /\ epoch' = [epoch EXCEPT !.ok = IF o = "ok" THEN @ + 1 ELSE @,
                                  !.returned = IF o \in {"ok", "hang"} THEN @ ELSE TRUE]
        /\ launches' = IF o = "ok" THEN launches + 1 ELSE launches
        /\ CASE o = "ok" ->
                  /\ Set(t, [r EXCEPT !.pc = "eb_publish"])
                  /\ UNCHANGED << recreation_lock, permits >>
             [] o = "hang" ->
                  /\ Set(t, [r EXCEPT !.pc = "hung_launch"])
                  /\ UNCHANGED << recreation_lock, permits >>
             [] OTHER ->
                  /\ recreation_lock' = 0
                  /\ Set(t, GpContinue(failed))
                  /\ permits' = IF GpExhausted(failed)
                                THEN PermitsAfterReturn(permits, FALSE) ELSE permits
        /\ UNCHANGED << browser, is_healthy, recreation_count, readers,
                        browser_pool_size, env, obs, gateVars >>

\* ensure_browser: publish the handle under the write lock (browser.rs 108-111)
EbPublish(t) ==
    /\ task[t].pc = "eb_publish"
    /\ readers = {}
    /\ browser' = "Some"
    /\ Set(t, [task[t] EXCEPT !.pc = "eb_sethealthy"])
    /\ UNCHANGED << is_healthy, recreation_count, permits, recreation_lock, readers,
                    browser_pool_size, env, obs, faults, gateVars, histVars >>

\* ensure_browser: is_healthy.store(true) (browser.rs 113)
EbSetHealthy(t) ==
    /\ task[t].pc = "eb_sethealthy"
    /\ is_healthy' = TRUE
    /\ Set(t, [task[t] EXCEPT !.pc = "eb_count"])
    /\ UNCHANGED << browser, recreation_count, permits, recreation_lock, readers,
                    browser_pool_size, env, obs, faults, gateVars, histVars >>

CountUnchanged(c) == c
\* recreation_count.fetch_add(1) (browser.rs 114)
CountAfterLaunch(c) == c + 1

\* ensure_browser: count the recreation, release the lock, return Ok
\* (browser.rs 114-122)
EbCount(t) ==
    /\ task[t].pc = "eb_count"
    /\ recreation_count' = CountAfterLaunch(recreation_count)
    /\ recreation_lock' = 0
    /\ Set(t, AfterEnsure(task[t]))
    /\ epoch' = Returned
    /\ UNCHANGED << browser, is_healthy, permits, readers, browser_pool_size, env, obs,
                    faults, gateVars, launches >>

\* get_page, first attempt: `!is_healthy.load()` (browser.rs 189)
GpHealthGate(t) ==
    /\ task[t].pc = "gp_hc"
    /\ Set(t, [task[t] EXCEPT !.pc = IF ~is_healthy THEN "hc_read" ELSE "tgp_read"])
    /\ UNCHANGED << poolVars, faults, gateVars, histVars >>

\* health_check: take the read guard, look at the handle (browser.rs 125-129);
\* with no handle it answers false and get_page invalidates (browser.rs 190-193)
HcRead(t) ==
    /\ task[t].pc = "hc_read"
    /\ IF browser = "Some"
       THEN /\ readers' = readers \cup {t}
            /\ Set(t, [task[t] EXCEPT !.pc = "hc_call"])
       ELSE /\ Set(t, [task[t] EXCEPT !.pc = "inv_store", !.inv_ret = "gp"])
            /\ UNCHANGED readers
    /\ UNCHANGED << browser, is_healthy, recreation_count, permits, recreation_lock,
                    browser_pool_size, env, obs, faults, gateVars, histVars >>

\* health_check: new_page, evaluate, close under the 5 s timeout, the read
\* guard held throughout (browser.rs 131-158); false makes get_page invalidate
HcCall(t, o) ==
    LET r == task[t]
    IN  /\ task[t].pc = "hc_call"
        /\ o \in Outcomes
        /\ Charge(o)
        /\ readers' = readers \ {t}
        /\ IF o = "ok"
           THEN Set(t, [r EXCEPT !.pc = "tgp_read"])
           ELSE Set(t, [r EXCEPT !.pc = "inv_store", !.inv_ret = "gp"])
        /\ UNCHANGED << browser, is_healthy, recreation_count, permits,
                        recreation_lock, browser_pool_size, env, obs, gateVars, histVars >>

\* A get_page that invalidates and retries after any Err of try_get_page
TryGetPageFailed_retry_any(t, r, e) ==
    /\ Set(t, [r EXCEPT !.pc = "inv_store", !.inv_ret = "gp",
                        !.gp_last = e, !.page = FALSE])
    /\ UNCHANGED permits

\* get_page on an Err(e) of try_get_page (browser.rs 199-207)
TryGetPageFailed(t, r, e) ==
    IF classified_connection(e)
    THEN /\ Set(t, [r EXCEPT !.pc = "inv_store", !.inv_ret = "gp",
                             !.gp_last = e, !.page = FALSE])
         /\ UNCHANGED permits
    ELSE /\ Set(t, GpReturnErr(r, e))
         /\ permits' = PermitsAfterReturn(permits, FALSE)

\* try_get_page: take the read guard, look at the handle (browser.rs 217-219)
TgpRead(t) ==
    /\ task[t].pc = "tgp_read"
    /\ IF browser = "Some"
       THEN /\ readers' = readers \cup {t}
            /\ Set(t, [task[t] EXCEPT !.pc = "tgp_newpage"])
            /\ UNCHANGED permits
       ELSE /\ TryGetPageFailed(t, task[t], BrowserError("not_initialized", "none"))
            /\ UNCHANGED readers
    /\ UNCHANGED << browser, is_healthy, recreation_count, recreation_lock,
                    browser_pool_size, env, obs, faults, gateVars, histVars >>

\* The Err a 5 s-bounded setup call maps its outcome to (browser.rs 221-252)
SetupError(timeout_ctx, failed_ctx, o) ==
    IF o = "hang" THEN BrowserError(timeout_ctx, "none") ELSE BrowserError(failed_ctx, o)

\* try_get_page: browser.new_page under the 5 s timeout, the read guard held
\* until it answers (browser.rs 221-229)
TgpNewPage(t, o) ==
    LET e == SetupError("timeout_page", "create_page", o)
        r == [task[t] EXCEPT !.opened = TRUE,
                             !.open1_conn = IF task[t].opened THEN @
                                            ELSE o # "ok" /\ classified_connection(e)]
    IN  /\ task[t].pc = "tgp_newpage"
        /\ o \in Outcomes
        /\ Charge(o)
        /\ readers' = readers \ {t}
        /\ IF o = "ok"
           THEN Set(t, [r EXCEPT !.pc = "tgp_setup", !.page = TRUE]) /\ UNCHANGED permits
           ELSE TryGetPageFailed(t, r, e)
        /\ UNCHANGED << browser, is_healthy, recreation_count, recreation_lock,
                        browser_pool_size, env, obs, gateVars, histVars >>

\* get_page returns Ok(page): navigate_and_wait is next (loader.rs 174-176)
GpReturnOk(r) == [r EXCEPT !.pc = "nav", !.gp_attempt = 0, !.gp_last = NoError]

\* The calls of try_get_page after the page is open, each under its own 5 s
\* timeout: page.set_user_agent, then page.execute(SetCookiesParams) when
\* options.cookies is set (browser.rs 231-256).  `site` is the call that
\* fails with outcome o; site = "none" when all of them answer.
TgpSetup(t, site, o) ==
    LET r == task[t]
    IN  /\ r.pc = "tgp_setup"
        /\ o \in Outcomes
        /\ Charge(o)
        /\ (o = "ok") = (site = "none")
        /\ site \in {"none", "set_user_agent"} \cup (IF r.in.cookies THEN {"set_cookies"} ELSE {})
        /\ CASE site = "none" ->
                  Set(t, GpReturnOk(r)) /\ permits' = PermitsAfterReturn(permits, TRUE)
             [] site = "set_user_agent" ->
                  TryGetPageFailed(t, r, SetupError("timeout_ua", "set_ua", o))
             [] site = "set_cookies" ->
                  TryGetPageFailed(t, r, SetupError("timeout_cookies", "set_cookies", o))
        /\ UNCHANGED << browser, is_healthy, recreation_count, recreation_lock, readers,
                        browser_pool_size, env, obs, gateVars, histVars >>
\* ------------------------------------------------------ navigate_and_wait
\* map_err closures that leave is_healthy alone
HealthyAfterError_kept(h, o) == h

\* What the map_err closures of goto, readyState, content and screenshot do
\* to is_healthy (browser.rs 270-276, 280-286, 310-316, 334-340)
HealthyAfterError(h, o) == IF o \in connection_texts THEN FALSE ELSE h

\* The Err of a step of navigate_and_wait that met outcome o: goto and
\* readyState run inside the request timeout, the selector wait under its
\* own, content() under none (browser.rs 267-318)
NavError(site, o) ==
    CASE site = "goto" ->
            IF o = "hang" THEN TimeoutError ELSE BrowserError("navigation", o)
      [] site = "ready_state" ->
            IF o = "hang" THEN TimeoutError ELSE BrowserError("ready_state", o)
      [] site = "selector" ->
            IF o = "hang" THEN TimeoutError ELSE BrowserError("selector", o)
      [] site = "content" -> BrowserError("content", o)

\* Whether an error at this step of navigate_and_wait runs a map_err closure
\* that may clear is_healthy: the selector wait's does not (browser.rs 299)
ClearsHealth(site, o) == site \in {"goto", "ready_state", "content"} /\ o # "hang"

\* navigate_and_wait(page, url, options) (browser.rs 259-319): goto,
\* readyState, the selector wait when options.wait_for_selector is set, the
\* 1 s sleep, content().  `site` is the step that fails with outcome o;
\* site = "none" when every step answers.  No deadline wraps content(): when
\* it never answers the task awaits it for ever.
NavigateAndWait(t, site, o) ==
    LET r == task[t]
    IN  /\ r.pc = "nav"
        /\ o \in Outcomes
        /\ Charge(o)
        /\ (o = "ok") = (site = "none")
        /\ site \in {"none", "goto", "ready_state", "content"}
                    \cup (IF r.in.wait_for_selector THEN {"selector"} ELSE {})
        /\ CASE site = "none" ->
                  /\ Set(t, [r EXCEPT !.pc = IF r.in.respond_with \in {"Screenshot", "Pageshot"}
                                             THEN "shot" ELSE "convert"])
                  /\ UNCHANGED << is_healthy, epoch >>
             [] site = "content" /\ o = "hang" ->
                  /\ Set(t, [r EXCEPT !.pc = "hung_content"])
                  /\ UNCHANGED << is_healthy, epoch >>
             [] OTHER ->
                  /\ Set(t, PuReturnErr(r, NavError(site, o)))
                  /\ is_healthy' = IF ClearsHealth(site, o)
                                   THEN HealthyAfterError(is_healthy, o) ELSE is_healthy
                  /\ epoch' = IF is_healthy' # is_healthy
                              THEN NewEpoch(recreation_count) ELSE epoch
        /\ UNCHANGED << browser, recreation_count, permits, recreation_lock, readers,
                        browser_pool_size, env, obs, gateVars, launches >>

\* process_url: drop(page), converter.process(&html, options) (loader.rs
\* 180-184).  scraper.parse_html fails with ScrapingError when the target
\* selector the request names is invalid or finds no element of the page, or
\* the remove selector it names is invalid (scraper.rs 20-30, 125-147), one
\* of the faults the environment is given; then, for the Default and
\* Markdown formats, extract_content fails with ExtractionError when
\* options.url is not a URL (converter.rs 48-50, 114; readability.rs 17-18)
Convert(t, ok) ==
    LET r == task[t]
    IN  /\ r.pc = "convert"
        /\ (~ok => (r.in.target_selector \/ r.in.remove_selector) /\ faults < env.budget)
        /\ faults' = IF ok THEN faults ELSE faults + 1
        /\ IF ~ok
           THEN Set(t, PuReturnErr(r, ScrapingError))
           ELSE IF r.in.respond_with \in {"Default", "Markdown"} /\ ~url_parses[r.in.url]
           THEN Set(t, PuReturnErr(r, ExtractionError))
           ELSE Set(t, PwrReturn(r, "ok", NoError))
        /\ UNCHANGED << poolVars, gateVars, histVars >>

\* process_screenshot after navigate_and_wait (loader.rs 199-221):
\* take_screenshot (browser.rs 321-343, no deadline), save_screenshot,
\* drop(page).  `site` is the call that fails; site = "none" when both answer.
Screenshot(t, site, o) ==
    LET r == task[t]
    IN  /\ r.pc = "shot"
        /\ o \in Outcomes \ (IF site = "save_screenshot" THEN {"closed", "hang"} ELSE {})
        /\ Charge(o)
        /\ (o = "ok") = (site = "none")
        /\ site \in {"none", "screenshot", "save_screenshot"}
        /\ CASE site = "none" ->
                  /\ Set(t, PwrReturn(r, "ok", NoError))
                  /\ UNCHANGED << is_healthy, epoch >>
             [] site = "screenshot" /\ o = "hang" ->
                  /\ Set(t, [r EXCEPT !.pc = "hung_screenshot"])
                  /\ UNCHANGED << is_healthy, epoch >>
             [] site = "screenshot" /\ o # "hang" ->
                  /\ Set(t, PuReturnErr(r, ScreenshotError(o)))
                  /\ is_healthy' = HealthyAfterError(is_healthy, o)
                  /\ epoch' = IF is_healthy' # is_healthy
                              THEN NewEpoch(recreation_count) ELSE epoch
             [] OTHER ->
                  /\ Set(t, PuReturnErr(r, ScreenshotError("io")))
                  /\ UNCHANGED << is_healthy, epoch >>
        /\ UNCHANGED << browser, recreation_count, permits, recreation_lock, readers,
                        browser_pool_size, env, obs, gateVars, launches >>

\* ------------------------------------------------- process_url_with_retry
HasNextAttemptOneMore(attempt) == attempt <= MAX_REQUEST_RETRIES
\* Whether another attempt follows attempt number `attempt` (loader.rs 133)
HasNextAttempt(attempt) == attempt < MAX_REQUEST_RETRIES

\* The error process_url_with_retry remembers (loader.rs 153)
Remembered(last_error, e) == e

\* After invalidate_browser in process_url_with_retry (loader.rs 152-163):
\* remember the error; the next attempt, or Err(last_error)
PwrAfterInvalidate(r) ==
    LET last == Remembered(r.last_error, r.err)
    IN  IF HasNextAttempt(r.attempt)
        THEN [r EXCEPT !.pc = "gp_acquire", !.attempt = @ + 1, !.last_error = last,
                       !.err = NoError, !.pu_calls = @ + 1, !.inv_ret = "none"]
        ELSE [PwrReturn(r, "err", IF last = NoError
                                  THEN BrowserError("process_max_retries", "none")
                                  ELSE last)
              EXCEPT !.inv_ret = "none"]

\* ------------------------------------------------------ invalidate_browser
\* is_healthy.store(false) (browser.rs 163)
InvStore(t) ==
    /\ task[t].pc = "inv_store"
    /\ is_healthy' = FALSE
    /\ Set(t, [task[t] EXCEPT !.pc = "inv_take"])
    /\ epoch' = NewEpoch(recreation_count)
    /\ UNCHANGED << browser, recreation_count, permits, recreation_lock, readers,
                    browser_pool_size, env, obs, faults, gateVars, launches >>

\* browser.write().await, take and drop the handle (browser.rs 165-168); then
\* the caller goes on: `continue` in get_page, or the retry loop
InvTake(t) ==
    LET r == task[t]
        back == [r EXCEPT !.inv_ret = "none"]
    IN  /\ r.pc = "inv_take"
        /\ readers = {}
        /\ browser' = "None"
        /\ epoch' = NewEpoch(recreation_count)
        /\ IF r.inv_ret = "gp"
           THEN /\ Set(t, GpContinue(back))
                /\ permits' = IF GpExhausted(back)
                              THEN PermitsAfterReturn(permits, FALSE) ELSE permits
           ELSE /\ Set(t, PwrAfterInvalidate(r))
                /\ UNCHANGED permits
        /\ UNCHANGED << is_healthy, recreation_count, recreation_lock, readers,
                        browser_pool_size, env, obs, faults, gateVars, launches >>

\* ------------------------------------------------------------ specification
Init ==
    /\ browser = "Some"
    /\ is_healthy = TRUE
    /\ recreation_count = 1
    /\ browser_pool_size \in 1..MaxPoolSize
    /\ env \in Environments
    /\ obs = [op |-> "none"]
    /\ permits = browser_pool_size
    /\ recreation_lock = 0
    /\ readers = {}
    /\ task = [t \in Tasks |-> IdleTask]
    /\ faults = 0
    /\ now = 0
    /\ circuit_breakers = << >>
    /\ rate_limits = << >>
    /\ cache = << >>
    /\ launches = 1
    /\ epoch = [clean |-> TRUE, ok |-> 1, returned |-> FALSE, base |-> 0]

Next ==
    \E t \in Tasks :
        \/ \E in \in Inputs : LoadStart(t, in)
        \/ LoadRateLimit(t)
        \/ LoadLookup(t)
        \/ \E in \in Inputs : BatchStart(t, in)
        \/ \E in \in Inputs : OpenWebUIStart(t, in)
        \/ GpAcquire(t)
        \/ EbCheck1(t)
        \/ EbRead1(t)
        \/ EbLock(t)
        \/ EbRead2(t)
        \/ EbStore(t)
        \/ \E o \in DriverOutcomes : EbCreate(t, o)
        \/ EbPublish(t)
        \/ EbSetHealthy(t)
        \/ EbCount(t)
        \/ GpHealthGate(t)
        \/ HcRead(t)
        \/ \E o \in DriverOutcomes : HcCall(t, o)
        \/ TgpRead(t)
        \/ \E o \in DriverOutcomes : TgpNewPage(t, o)
        \/ \E o \in DriverOutcomes : \E site \in SetupSites : TgpSetup(t, site, o)
        \/ \E o \in DriverOutcomes : \E site \in NavSites : NavigateAndWait(t, site, o)
        \/ \E ok \in BOOLEAN : Convert(t, ok)
        \/ \E o \in DriverOutcomes : \E site \in ShotSites : Screenshot(t, site, o)
        \/ InvStore(t)
        \/ InvTake(t)
        \/ HandlerTail(t)
        \/ HandlerStore(t)

Spec == Init /\ [][Next]_vars


\* ------------------------------------------- the services on their own
\* SecurityService and CacheService are shared by every request (AppState);
\* the specifications below call their operations directly, in any order,
\* while the clock advances.

\* The domains the callers name
Domains == {<<"e","x","a","m","p","l","e",".","c","o","m">>, <<"e","x","a","m","p","l","e",".","o","r","g">>}

\* SecurityService::new, CacheService::new and a launched browser with one
\* page, in environment e
InitServiceIn(e) ==
    /\ browser = "Some"
    /\ is_healthy = TRUE
    /\ recreation_count = 1
    /\ browser_pool_size = 1
    /\ env = e
    /\ obs = [op |-> "none"]
    /\ permits = browser_pool_size
    /\ recreation_lock = 0
    /\ readers = {}
    /\ task = [t \in Tasks |-> IdleTask]
    /\ faults = 0
    /\ now = 0
    /\ circuit_breakers = << >>
    /\ rate_limits = << >>
    /\ cache = << >>
    /\ launches = 1
    /\ epoch = [clean |-> TRUE, ok |-> 1, returned |-> FALSE, base |-> 0]

\* The services with one client and LoadFaults failing browser calls
InitService == InitServiceIn([clients |-> 1, budget |-> LoadFaults])

\* Instant::now() is monotonic: d seconds pass
Tick(d) ==
    /\ now' = now + d
    /\ UNCHANGED << browserVars, obs, circuit_breakers, rate_limits, cache >>

\* A caller runs check_circuit_breaker(domain)
CheckCircuitBreaker(domain) ==
    /\ obs' = [op |-> "check_circuit_breaker", domain |-> domain, at |-> now,
               ok |-> check_circuit_breaker(circuit_breakers, domain, now)]
    /\ UNCHANGED << browserVars, now, circuit_breakers, rate_limits, cache >>

\* A caller runs record_failure(domain)
RecordFailure(domain) ==
    /\ circuit_breakers' = record_failure(circuit_breakers, domain, now)
    /\ obs' = [op |-> "record_failure", domain |-> domain, at |-> now]
    /\ UNCHANGED << browserVars, now, rate_limits, cache >>

\* A caller runs record_success(domain)
RecordSuccess(domain) ==
    /\ circuit_breakers' = record_success(circuit_breakers, domain)
    /\ obs' = [op |-> "record_success", domain |-> domain, at |-> now]
    /\ UNCHANGED << browserVars, now, rate_limits, cache >>

\* The failures counted for a domain (0 while it has no entry)
Failures(cb, domain) == IF domain \in DOMAIN cb THEN cb[domain].failures ELSE 0

NextBreaker ==
    \/ \E d \in BreakerSteps : now + d <= MaxNow /\ Tick(d)
    \/ \E domain \in Domains : CheckCircuitBreaker(domain)
    \/ \E domain \in Domains :
          Failures(circuit_breakers, domain) < MaxFailures /\ RecordFailure(domain)
    \/ \E domain \in Domains : RecordSuccess(domain)

SpecBreaker == InitService /\ [][NextBreaker]_vars

\* The requests counted for a domain (0 while it has no entry)
Requests(rl, domain) == IF domain \in DOMAIN rl THEN rl[domain].requests ELSE 0

\* A caller runs check_rate_limit(domain); `before` is the entry found
CheckRateLimit(domain) ==
    LET r == check_rate_limit(rate_limits, domain, now)
    IN  /\ rate_limits' = r.rl
        /\ obs' = [op |-> "check_rate_limit", domain |-> domain, at |-> now,
                   ok |-> r.ok,
                   before |-> IF domain \in DOMAIN rate_limits
                              THEN Some(rate_limits[domain]) ELSE None]
        /\ UNCHANGED << browserVars, now, circuit_breakers, cache >>

NextRate ==
    \/ \E d \in RateSteps : now + d <= MaxNow /\ Tick(d)
    \/ \E domain \in Domains :
          Requests(rate_limits, domain) < MaxRequests /\ CheckRateLimit(domain)

SpecRate == InitService /\ [][NextRate]_vars

\* The fingerprints the callers use
CacheKeys == {cache_key(in.url, in.respond_with) : in \in Inputs}

\* The entry a cache call finds for its key
Found(key) == IF key \in DOMAIN cache THEN Some(cache[key]) ELSE None

\* A caller runs CacheService::set(key, response, ttl_secs)
CacheSet(key, ttl_secs) ==
    /\ cache' = cache_set(cache, key,
                          [url |-> key[1], respond_with |-> key[2],
                           content |-> now, cached |-> FALSE],
                          ttl_secs, now)
    /\ obs' = [op |-> "set", key |-> key, at |-> now]
    /\ UNCHANGED << browserVars, now, circuit_breakers, rate_limits >>

\* Caller t runs CacheService::get for the fingerprint of `in`, up to
\* drop(entry) (cache.rs 25-34): it returns unless the entry has expired
CacheGet(t, in) ==
    LET key == cache_key(in.url, in.respond_with)
        r == cache_get(cache, key, now)
    IN  /\ task[t].pc = "idle"
        /\ t <= env.clients
        /\ obs' = [op |-> IF r.expired THEN "get_read" ELSE "get",
                   key |-> key, at |-> now, tolerance |-> None,
                   hit |-> r.hit, response |-> r.response, before |-> Found(key)]
        /\ task' = IF r.expired
                   THEN [task EXCEPT ![t] = [NewRequest(in) EXCEPT !.pc = "cache_remove"]]
                   ELSE task
        /\ UNCHANGED << browser, is_healthy, recreation_count, permits,
                        recreation_lock, readers, browser_pool_size, env, faults,
                        gateVars, histVars >>

\* Caller t, whose get found the entry expired, removes what the key holds
\* now and returns None (cache.rs 35-39); `before` is what it removes
CacheGetRemove(t) ==
    LET key == cache_key(task[t].in.url, task[t].in.respond_with)
    IN  /\ task[t].pc = "cache_remove"
        /\ cache' = invalidate(cache, key)
        /\ obs' = [op |-> "get", key |-> key, at |-> now, tolerance |-> None,
                   hit |-> FALSE, response |-> None, before |-> Found(key)]
        /\ task' = [task EXCEPT ![t] = IdleTask]
        /\ UNCHANGED << browser, is_healthy, recreation_count, permits,
                        recreation_lock, readers, browser_pool_size, env, faults,
                        now, circuit_breakers, rate_limits, histVars >>

\* A caller runs CacheService::invalidate(key)
CacheInvalidate(key) ==
    /\ cache' = invalidate(cache, key)
    /\ obs' = [op |-> "invalidate", key |-> key, at |-> now]
    /\ UNCHANGED << browserVars, now, circuit_breakers, rate_limits >>

\* A caller runs CacheService::clear()
CacheClear ==
    /\ cache' = << >>
    /\ obs' = [op |-> "clear", at |-> now]
    /\ UNCHANGED << browserVars, now, circuit_breakers, rate_limits >>

\* A caller runs CacheService::cleanup_expired()
CleanupExpired ==
    /\ cache' = cleanup_expired(cache, now).cache
    /\ obs' = [op |-> "cleanup_expired", at |-> now,
               removed |-> cleanup_expired(cache, now).removed]
    /\ UNCHANGED << browserVars, now, circuit_breakers, rate_limits >>

\* A caller runs CacheService::get_with_tolerance(key, tolerance_secs)
GetWithTolerance(key, tolerance_secs) ==
    LET r == get_with_tolerance(cache, key, tolerance_secs, now)
    IN  /\ obs' = [op |-> "get_with_tolerance", key |-> key, at |-> now,
                   tolerance |-> tolerance_secs,
                   hit |-> r.hit, response |-> r.response, before |-> Found(key)]
        /\ UNCHANGED << browserVars, now, circuit_breakers, rate_limits, cache >>

NextCache ==
    \/ now < MaxAge /\ Tick(1)
    \/ \E key \in CacheKeys : \E ttl_secs \in {None, Some(1)} :
          CacheSet(key, ttl_secs)
    \/ \E t \in Tasks : \E in \in Inputs : CacheGet(t, in)
    \/ \E t \in Tasks : CacheGetRemove(t)
    \/ \E key \in CacheKeys : CacheInvalidate(key)
    \/ CacheClear
    \/ CleanupExpired
    \/ \E key \in CacheKeys :
          \E tolerance_secs \in {None, Some(0), Some(1), Some(cache_ttl + 1)} :
              GetWithTolerance(key, tolerance_secs)

SpecCache == InitService /\ [][NextCache]_vars

\* ------------------------------------------- the load handler on its own
\* One client sends /load requests one after another while the clock
\* advances: the same page asked for with the cache_tolerance and no_cache
\* headers set differently, and two URLs validate_url refuses (BlockedUrl,
\* InvalidUrl).
LoadInputs ==
    { [path |-> "load", url |-> u, respond_with |-> "Default",
       cookies |-> FALSE, wait_for_selector |-> FALSE, no_cache |-> nc,
       cache_tolerance |-> tol, target_selector |-> TRUE,
       remove_selector |-> FALSE] :
         u \in {<<"h","t","t","p","s",":","/","/","e","x","a","m","p","l","e",".","c","o","m">>},
         nc \in BOOLEAN,
         tol \in {None, Some(0), Some(cache_ttl + 1)} }
    \cup
    { [path |-> "load", url |-> <<"h","t","t","p",":","/","/","l","o","c","a","l","h","o","s","t",":","8","0","8","0","/","x">>, respond_with |-> "Default",
       cookies |-> FALSE, wait_for_selector |-> FALSE, no_cache |-> FALSE,
       cache_tolerance |-> None, target_selector |-> TRUE,
       remove_selector |-> FALSE],
      [path |-> "load", url |-> FtpUrl, respond_with |-> "Default",
       cookies |-> FALSE, wait_for_selector |-> FALSE, no_cache |-> TRUE,
       cache_tolerance |-> None, target_selector |-> TRUE,
       remove_selector |-> FALSE] }

\* The answer has been sent; the client sends its next request
NextRequest(t) ==
    /\ task[t].pc = "done"
    /\ Set(t, IdleTask)
    /\ UNCHANGED << poolVars, faults, gateVars, histVars >>

NextLoad ==
    \/ now < MaxAge /\ Tick(1)
    \/ \E t \in Tasks :
        \/ \E in \in LoadInputs :
              /\ Requests(rate_limits, validated[in.url].host) < MaxRequests
              /\ LoadStart(t, in)
        \/ LoadRateLimit(t)
        \/ LoadLookup(t)
        \/ NextRequest(t)
        \/ GpAcquire(t)
        \/ EbCheck1(t)
        \/ EbRead1(t)
        \/ EbLock(t)
        \/ EbStore(t)
        \/ \E o \in DriverOutcomes : EbCreate(t, o)
        \/ EbPublish(t)
        \/ EbSetHealthy(t)
        \/ EbCount(t)
        \/ GpHealthGate(t)
        \/ HcRead(t)
        \/ \E o \in DriverOutcomes : HcCall(t, o)
        \/ TgpRead(t)
        \/ \E o \in DriverOutcomes : TgpNewPage(t, o)
        \/ \E o \in DriverOutcomes : \E site \in SetupSites : TgpSetup(t, site, o)
        \/ \E o \in DriverOutcomes : \E site \in NavSites : NavigateAndWait(t, site, o)
        \/ \E ok \in BOOLEAN : Convert(t, ok)
        \/ InvStore(t)
        \/ InvTake(t)
        \/ HandlerTail(t)
        \/ HandlerStore(t)

SpecLoad == InitService /\ [][NextLoad]_vars

\* --------------------------------------------------- the error classifier
\* The variants of AppError that carry a text, and the errors handed to
\* is_connection_error: every variant with every text the model knows
ErrorKinds ==
    {"InvalidUrl", "BlockedUrl", "Timeout", "BrowserError", "ScrapingError",
     "ExtractionError", "MarkdownError", "ScreenshotError", "RateLimitExceeded",
     "CircuitBreakerOpen", "Internal", "ConfigError"}

InitClassify ==
    /\ browser = "Some"
    /\ is_healthy = TRUE
    /\ recreation_count = 1
    /\ browser_pool_size = 1
    /\ env = [clients |-> 1, budget |-> LoadFaults]
    /\ obs \in {[op |-> "error", err |-> [kind |-> k, ctx |-> c, drv |-> d]] :
                   k \in ErrorKinds,
                   c \in ErrorContexts \cup {"none"},
                   d \in DriverTexts \cup DOMAIN ErrorTexts}
    /\ permits = browser_pool_size
    /\ recreation_lock = 0
    /\ readers = {}
    /\ task = [t \in Tasks |-> IdleTask]
    /\ faults = 0
    /\ now = 0
    /\ circuit_breakers = << >>
    /\ rate_limits = << >>
    /\ cache = << >>
    /\ launches = 1
    /\ epoch = [clean |-> TRUE, ok |-> 1, returned |-> FALSE, base |-> 0]

\* A caller runs BrowserPool::is_connection_error(&err)
Classify ==
    /\ obs.op = "error"
    /\ obs' = [op |-> "is_connection_error", err |-> obs.err,
               ret |-> is_connection_error(obs.err)]
    /\ UNCHANGED << browserVars, now, circuit_breakers, rate_limits, cache >>

SpecClassify == InitClassify /\ [][Classify]_vars

\* ------------------------------------------------ validate_url on its own
\* Every variable as AppState::new leaves it, with the input of the call
\* that is about to be made drawn from a set
InitDrawn(draws) ==
    /\ browser = "Some"
    /\ is_healthy = TRUE
    /\ recreation_count = 1
    /\ browser_pool_size = 1
    /\ env = [clients |-> 1, budget |-> LoadFaults]
    /\ obs \in draws
    /\ permits = browser_pool_size
    /\ recreation_lock = 0
    /\ readers = {}
    /\ task = [t \in Tasks |-> IdleTask]
    /\ faults = 0
    /\ now = 0
    /\ circuit_breakers = << >>
    /\ rate_limits = << >>
    /\ cache = << >>
    /\ launches = 1
    /\ epoch = [clean |-> TRUE, ok |-> 1, returned |-> FALSE, base |-> 0]

\* What UTS 46 may answer for a domain with a character outside ASCII:
\* an error, or the domain in ASCII
Uts46Answers ==
    { [ok |-> FALSE, domain |-> << >>],
      [ok |-> TRUE, domain |-> <<"x","n","-","-","9","c","a",".","c","o","m">>] }

\* Hosts, each with what it is by the URL standard and the rules of
\* validate_url, worked out by hand and not by the definitions above:
\* "blocked" for localhost, 127.0.0.1, 0.0.0.0, their subdomains, the
\* internal IPv4 addresses and a name that starts like one ("10."),
\* "loopback_v6" for ::1, "no_dot" for another host
\* without a '.', "passes" for any other, with the host_str() of the Url
\* (lower-cased, an IPv4 address in dotted decimal)
UrlHosts ==
    { [text |-> <<"e","x","a","m","p","l","e",".","c","o","m">>, kind |-> "passes",
       host_str |-> <<"e","x","a","m","p","l","e",".","c","o","m">>],
      [text |-> <<"E","x","a","m","p","l","e",".","C","O","M">>, kind |-> "passes",
       host_str |-> <<"e","x","a","m","p","l","e",".","c","o","m">>],
      [text |-> <<"l","o","c","a","l","h","o","s","t">>, kind |-> "blocked",
       host_str |-> <<>>],
      [text |-> <<"L","O","C","A","L","H","O","S","T">>, kind |-> "blocked",
       host_str |-> <<>>],
      [text |-> <<"f","o","o",".","l","o","c","a","l","h","o","s","t">>, kind |-> "blocked",
       host_str |-> <<>>],
      [text |-> <<"n","o","t","l","o","c","a","l","h","o","s","t">>, kind |-> "no_dot",
       host_str |-> <<>>],
      [text |-> <<"l","o","c","a","l","h","o","s","t",".","e","x","a","m","p","l","e",".","c","o","m">>, kind |-> "passes",
       host_str |-> <<"l","o","c","a","l","h","o","s","t",".","e","x","a","m","p","l","e",".","c","o","m">>],
      [text |-> <<"1","2","7",".","0",".","0",".","1">>, kind |-> "blocked",
       host_str |-> <<>>],
      [text |-> <<"1","2","7",".","9",".","9",".","9">>, kind |-> "blocked",
       host_str |-> <<>>],
      [text |-> <<"0",".","0",".","0",".","0">>, kind |-> "blocked",
       host_str |-> <<>>],
      [text |-> <<"1","0",".","0",".","0",".","1">>, kind |-> "blocked",
       host_str |-> <<>>],
      [text |-> <<"1","7","2",".","1","6",".","0",".","1">>, kind |-> "blocked",
       host_str |-> <<>>],
      [text |-> <<"1","7","2",".","3","1",".","2","5","5",".","1">>, kind |-> "blocked",
       host_str |-> <<>>],
      [text |-> <<"1","7","2",".","3","2",".","0",".","1">>, kind |-> "passes",
       host_str |-> <<"1","7","2",".","3","2",".","0",".","1">>],
      [text |-> <<"1","9","2",".","1","6","8",".","1",".","1">>, kind |-> "blocked",
       host_str |-> <<>>],
      [text |-> <<"1","9","2",".","1","6","9",".","1",".","1">>, kind |-> "passes",
       host_str |-> <<"1","9","2",".","1","6","9",".","1",".","1">>],
      [text |-> <<"1","6","9",".","2","5","4",".","1",".","1">>, kind |-> "blocked",
       host_str |-> <<>>],
      [text |-> <<"8",".","8",".","8",".","8">>, kind |-> "passes",
       host_str |-> <<"8",".","8",".","8",".","8">>],
      [text |-> <<"1","2","7",".","1">>, kind |-> "blocked",
       host_str |-> <<>>],
      [text |-> <<"0","1","0",".","0",".","0",".","1">>, kind |-> "passes",
       host_str |-> <<"8",".","0",".","0",".","1">>],
      [text |-> <<"[",":",":","1","]">>, kind |-> "loopback_v6",
       host_str |-> <<>>],
      [text |-> <<"i","n","t","r","a","n","e","t">>, kind |-> "no_dot",
       host_str |-> <<>>],
      [text |-> <<"x",".","t","e","s","t">>, kind |-> "passes",
       host_str |-> <<"x",".","t","e","s","t">>],
      [text |-> <<"1","0",".","e","x","a","m","p","l","e",".","c","o","m">>, kind |-> "blocked",
       host_str |-> <<>>] }

\* The strings given to validate_url with what they are, worked out by hand
\* in the same way: a scheme, "://" or ":", an optional userinfo, one of the
\* hosts, and a port, path and query.  After http and https, in whatever
\* case, the host decides; after another scheme the string is "other_scheme"
UrlInputs ==
    { [url_str |-> scheme \o sep \o user \o h.text \o rest,
       kind |-> IF to_lowercase(scheme) \in {<<"h","t","t","p">>, <<"h","t","t","p","s">>}
                THEN h.kind ELSE "other_scheme",
       host_str |-> IF to_lowercase(scheme) \in {<<"h","t","t","p">>, <<"h","t","t","p","s">>}
                    THEN h.host_str ELSE << >>,
       uts46 |-> uts46] :
        scheme \in { <<"h","t","t","p">>,
            <<"h","t","t","p","s">>,
            <<"H","T","T","P">>,
            <<"f","t","p">>,
            <<"f","i","l","e">>,
            <<"m","a","i","l","t","o">> },
        sep \in { <<":","/","/">>,
            <<":">> },
        user \in { <<>>,
            <<"u","s","e","r","@">> },
        h \in UrlHosts,
        rest \in { <<>>,
            <<"/">>,
            <<":","8","0","8","0">>,
            <<"/","x">>,
            <<":","8","0","8","0","/","x","?","q","=","1">> },
        uts46 \in Uts46Answers }

\* Strings that are not of that form: "not_url" for a string that is no URL
\* (no scheme, no host after http, a character or a port no host can have,
\* an IPv6 literal left open, a Punycode label that does not decode or
\* decodes to U+FFFD or to a joiner first, a percent-encoded byte that is no
\* UTF-8).  valid_kind and valid_host_str
\* are what the string is when UTS 46 accepts its domain
OtherStrings ==
    { [url_str |-> <<>>,
       kind |-> "not_url", host_str |-> <<>>,
       valid_kind |-> "not_url", valid_host_str |-> <<>>],
      [url_str |-> <<"e","x","a","m","p","l","e",".","c","o","m">>,
       kind |-> "not_url", host_str |-> <<>>,
       valid_kind |-> "not_url", valid_host_str |-> <<>>],
      [url_str |-> <<"h","t","t","p",":","/","/">>,
       kind |-> "not_url", host_str |-> <<>>,
       valid_kind |-> "not_url", valid_host_str |-> <<>>],
      [url_str |-> <<":","/","/","e","x","a","m","p","l","e",".","c","o","m">>,
       kind |-> "not_url", host_str |-> <<>>,
       valid_kind |-> "not_url", valid_host_str |-> <<>>],
      [url_str |-> <<"h","t","t","p",":","/","/"," ","e","x","a","m","p","l","e",".","c","o","m","/">>,
       kind |-> "not_url", host_str |-> <<>>,
       valid_kind |-> "not_url", valid_host_str |-> <<>>],
      [url_str |-> <<"1","h","t","t","p",":","/","/","e","x","a","m","p","l","e",".","c","o","m","/">>,
       kind |-> "not_url", host_str |-> <<>>,
       valid_kind |-> "not_url", valid_host_str |-> <<>>],
      [url_str |-> <<"h","t","t","p","s",":","/","/","e","x","a","m","p","l","e",".","c","o","m",":","p","o","r","t","/">>,
       kind |-> "not_url", host_str |-> <<>>,
       valid_kind |-> "not_url", valid_host_str |-> <<>>],
      [url_str |-> <<" "," ","h","t","t","p","s",":","/","/","e","x","a","m","p","l","e",".","c","o","m"," "," ">>,
       kind |-> "passes", host_str |-> <<"e","x","a","m","p","l","e",".","c","o","m">>,
       valid_kind |-> "passes", valid_host_str |-> <<"e","x","a","m","p","l","e",".","c","o","m">>],
      [url_str |-> <<"h","t","t","p",":","/","/","/","x",".","t","e","s","t","/">>,
       kind |-> "passes", host_str |-> <<"x",".","t","e","s","t">>,
       valid_kind |-> "passes", valid_host_str |-> <<"x",".","t","e","s","t">>],
      [url_str |-> <<"h","t","t","p",":","/","/","[",":",":","1">>,
       kind |-> "not_url", host_str |-> <<>>,
       valid_kind |-> "not_url", valid_host_str |-> <<>>],
      [url_str |-> <<C0Controls[2],"h","t","t","p",":","/","/","e","x","a","m","p","l","e",".","c","o","m","/">>,
       kind |-> "passes", host_str |-> <<"e","x","a","m","p","l","e",".","c","o","m">>,
       valid_kind |-> "passes", valid_host_str |-> <<"e","x","a","m","p","l","e",".","c","o","m">>],
      [url_str |-> <<"h","t","t","p","s",":","/","/","e","x","%","4","1","m","p","l","e",".","c","o","m","/">>,
       kind |-> "passes", host_str |-> <<"e","x","a","m","p","l","e",".","c","o","m">>,
       valid_kind |-> "passes", valid_host_str |-> <<"e","x","a","m","p","l","e",".","c","o","m">>],
      [url_str |-> <<"h","t","t","p","s",":","/","/","x","n","-","-","a","-",".","c","o","m","/">>,
       kind |-> "not_url", host_str |-> <<>>,
       valid_kind |-> "not_url", valid_host_str |-> <<>>],
      [url_str |-> <<"h","t","t","p","s",":","/","/","%","F","F",".","c","o","m","/">>,
       kind |-> "not_url", host_str |-> <<>>,
       valid_kind |-> "not_url", valid_host_str |-> <<>>],
      [url_str |-> <<"h","t","t","p","s",":","/","/","%","E","2","%","8","0","/">>,
       kind |-> "not_url", host_str |-> <<>>,
       valid_kind |-> "not_url", valid_host_str |-> <<>>],
      [url_str |-> <<"h","t","t","p","s",":","/","/","e","x","a",Replacement,"m","p","l","e",".","c","o","m","/">>,
       kind |-> "not_url", host_str |-> <<>>,
       valid_kind |-> "not_url", valid_host_str |-> <<>>],
      [url_str |-> <<"f","o","o",":","/","/","u","s","e","r","@","/","x">>,
       kind |-> "other_scheme", host_str |-> <<>>,
       valid_kind |-> "other_scheme", valid_host_str |-> <<>>],
      [url_str |-> <<"f","o","o",":","/","/","a",C0Controls[2],"b","/">>,
       kind |-> "other_scheme", host_str |-> <<>>,
       valid_kind |-> "other_scheme", valid_host_str |-> <<>>],
      [url_str |-> <<"h","t","t","p","s",":","/","/","x","n","-","-","9","c","a",".","c","o","m","/">>,
       kind |-> "not_url", host_str |-> <<>>,
       valid_kind |-> "passes", valid_host_str |-> <<"x","n","-","-","9","c","a",".","c","o","m">>],
      [url_str |-> <<"h","t","t","p","s",":","/","/","x","n","-","-","z","n","7","c",".","c","o","m","/">>,
       kind |-> "not_url", host_str |-> <<>>,
       valid_kind |-> "not_url", valid_host_str |-> <<>>],
      [url_str |-> <<"h","t","t","p","s",":","/","/","x","n","-","-","0","u","g",".","a","/">>,
       kind |-> "not_url", host_str |-> <<>>,
       valid_kind |-> "not_url", valid_host_str |-> <<>>],
      [url_str |-> <<"h","t","t","p","s",":","/","/","x","n","-","-","1","u","g","/">>,
       kind |-> "not_url", host_str |-> <<>>,
       valid_kind |-> "not_url", valid_host_str |-> <<>>],
      [url_str |-> <<"h","t","t","p","s",":","/","/","x","n","-","-","a","-","u","g","n",".","c","o","m","/">>,
       kind |-> "not_url", host_str |-> <<>>,
       valid_kind |-> "passes", valid_host_str |-> <<"x","n","-","-","a","-","u","g","n",".","c","o","m">>],
      [url_str |-> <<"f","o","o",":","/","/",Delete,"/">>,
       kind |-> "other_scheme", host_str |-> <<>>,
       valid_kind |-> "other_scheme", valid_host_str |-> <<>>],
      [url_str |-> <<"h","t","t","p","s",":","/","/","%","C","3","%","A","9",".","c","o","m","/">>,
       kind |-> "not_url", host_str |-> <<>>,
       valid_kind |-> "passes", valid_host_str |-> <<"x","n","-","-","9","c","a",".","c","o","m">>] }

OtherInputs ==
    { [url_str |-> o.url_str,
       kind |-> IF uts46.ok THEN o.valid_kind ELSE o.kind,
       host_str |-> IF uts46.ok THEN o.valid_host_str ELSE o.host_str,
       uts46 |-> uts46] : o \in OtherStrings, uts46 \in Uts46Answers }

\* A caller runs security.validate_url(&url_str)
ValidateUrl ==
    /\ obs.op = "url"
    /\ obs' = [op |-> "validate_url", url_str |-> obs.url_str,
               kind |-> obs.kind, host_str |-> obs.host_str,
               uts46 |-> obs.uts46,
               url |-> Url_parse(obs.url_str, obs.uts46),
               ret |-> validate_url(obs.url_str, obs.uts46)]
    /\ UNCHANGED << browserVars, now, circuit_breakers, rate_limits, cache >>

SpecValidate ==
    /\ InitDrawn({[op |-> "url", url_str |-> u.url_str, kind |-> u.kind,
                   host_str |-> u.host_str, uts46 |-> u.uts46] :
                  u \in UrlInputs \cup OtherInputs})
    /\ [][ValidateUrl]_vars

\* ------------------------------------------------------ the batch handlers
\* The urls of a BatchLoadRequest or OpenWebUIRequest: up to
\* max_domains_per_page + 1 entries, each a URL or a string that is not one
BatchLists ==
    UNION { [1..n -> BatchUrls] : n \in 0..(max_domains_per_page + 1) }

\* SecurityService::check_domain_count
check_domain_count(domains) ==
    IF Len(domains) > max_domains_per_page
    THEN [ok |-> FALSE, err |-> TooManyDomains(Len(domains))]
    ELSE [ok |-> TRUE, err |-> NoError]

\* join_all: the outputs of the futures, in the order of the futures
join_all(outputs, order) == [i \in 1..Len(order) |-> outputs[i]]

\* What the handler answers once join_all has returned: batch_load_handler
\* every result, openwebui_handler the documents that are there
\* (.into_iter().flatten())
BatchAnswer(path, outputs, order) ==
    [ok |-> TRUE, err |-> NoError,
     results |-> IF path = "batch" THEN join_all(outputs, order)
                 ELSE SelectSeq(join_all(outputs, order), LAMBDA r : r.response)]

\* batch_load_handler / openwebui_handler up to join_all (loader.rs 74-113,
\* 233-272): the hosts of the entries that parse are counted, and one future
\* per entry is started.  uts46 is what UTS 46 answers in this build for a
\* host that is not plain ASCII; no entry of BatchUrls has such a host.
BatchRequest(path, urls) ==
    /\ obs.op = "none"
    /\ Len(urls) <= NumTasks
    /\ \E uts46 \in Uts46Answers :
       LET parsed == SelectSeq(urls, LAMBDA u : Url_parse(u, uts46).ok)
           domains == [i \in 1..Len(parsed) |-> Url_parse(parsed[i], uts46).host]
           checked == check_domain_count(domains)
           call == [op |-> "batch", path |-> path, urls |-> urls,
                    outputs |-> << >>, order |-> << >>]
       IN  IF ~checked.ok
           THEN /\ obs' = [call EXCEPT !.op = "answered"] @@
                          [answer |-> [ok |-> FALSE, err |-> checked.err,
                                       results |-> << >>]]
                /\ UNCHANGED task
           ELSE IF Len(urls) = 0
           THEN /\ obs' = [call EXCEPT !.op = "answered"] @@
                          [answer |-> BatchAnswer(path, << >>, << >>)]
                /\ UNCHANGED task
           ELSE /\ obs' = call
                /\ task' = [t \in Tasks |->
                              IF t <= Len(urls)
                              THEN EnterPipeline(NewRequest(
                                       [path |-> path, url |-> urls[t],
                                        respond_with |-> "Default",
                                        cookies |-> FALSE,
                                        wait_for_selector |-> FALSE,
                                        no_cache |-> FALSE,
                                        cache_tolerance |-> None,
                                        target_selector |-> FALSE,
                                        remove_selector |-> TRUE]))
                              ELSE task[t]]
    /\ UNCHANGED << browser, is_healthy, recreation_count, permits, recreation_lock,
                    readers, browser_pool_size, env, faults, gateVars, histVars >>

\* The future of entry t ends (loader.rs 94-111, 252-269): its output is the
\* result, with the error as a text, or the document if there is one; when
\* it is the last one join_all returns and the handler answers
FutureDone(t) ==
    /\ obs.op = "batch"
    /\ task[t].pc = "pwr_ret"
    /\ LET r == task[t]
           ok == r.result.status = "ok"
           output == [url |-> r.in.url, response |-> ok, error |-> ~ok,
                      err |-> r.result.err]
           outputs == [i \in DOMAIN obs.outputs \cup {t} |->
                          IF i = t THEN output ELSE obs.outputs[i]]
           order == Append(obs.order, t)
       IN  /\ Set(t, Answer(200, ok, FALSE))
           /\ obs' = IF Len(order) = Len(obs.urls)
                     THEN [op |-> "answered", path |-> obs.path, urls |-> obs.urls,
                           outputs |-> outputs, order |-> order,
                           answer |-> BatchAnswer(obs.path, outputs, order)]
                     ELSE [obs EXCEPT !.outputs = outputs, !.order = order]
    /\ UNCHANGED << browser, is_healthy, recreation_count, permits, recreation_lock,
                    readers, browser_pool_size, env, faults, gateVars, histVars >>

\* One batch request at a time, its futures sharing a pool of MaxPoolSize
\* pages
InitBatch ==
    /\ browser = "Some"
    /\ is_healthy = TRUE
    /\ recreation_count = 1
    /\ browser_pool_size = MaxPoolSize
    /\ env = [clients |-> NumTasks, budget |-> ConcurrentFaults]
    /\ obs = [op |-> "none"]
    /\ permits = browser_pool_size
    /\ recreation_lock = 0
    /\ readers = {}
    /\ task = [t \in Tasks |-> IdleTask]
    /\ faults = 0
    /\ now = 0
    /\ circuit_breakers = << >>
    /\ rate_limits = << >>
    /\ cache = << >>
    /\ launches = 1
    /\ epoch = [clean |-> TRUE, ok |-> 1, returned |-> FALSE, base |-> 0]

NextBatch ==
    \/ \E path \in {"batch", "openwebui"} : \E urls \in BatchLists :
           BatchRequest(path, urls)
    \/ \E t \in Tasks :
        \/ FutureDone(t)
        \/ GpAcquire(t)
        \/ EbCheck1(t)
        \/ EbRead1(t)
        \/ EbLock(t)
        \/ EbRead2(t)
        \/ EbStore(t)
        \/ \E o \in DriverOutcomes : EbCreate(t, o)
        \/ EbPublish(t)
        \/ EbSetHealthy(t)
        \/ EbCount(t)
        \/ GpHealthGate(t)
        \/ HcRead(t)
        \/ \E o \in DriverOutcomes : HcCall(t, o)
        \/ TgpRead(t)
        \/ \E o \in DriverOutcomes : TgpNewPage(t, o)
        \/ \E o \in DriverOutcomes : \E site \in SetupSites : TgpSetup(t, site, o)
        \/ \E o \in DriverOutcomes : \E site \in NavSites : NavigateAndWait(t, site, o)
        \/ \E ok \in BOOLEAN : Convert(t, ok)
        \/ InvStore(t)
        \/ InvTake(t)

SpecBatch == InitBatch /\ [][NextBatch]_vars

\* ----------------------------------------------------- errors as responses
\* A handler returns Err(e) and axum turns it into the response
IntoResponse ==
    /\ obs.op = "error"
    /\ obs' = [op |-> "into_response", err |-> obs.err,
               response |-> into_response(obs.err)]
    /\ UNCHANGED << browserVars, now, circuit_breakers, rate_limits, cache >>

\* Every variant of AppError, with every text the model knows
SpecResponse ==
    InitDrawn({[op |-> "error", err |-> [kind |-> k, ctx |-> c, drv |-> d]] :
                  k \in ErrorKinds \cup {"Unauthorized", "InvalidApiKey",
                                         "TooManyDomains", "IoError"},
                  c \in ErrorContexts \cup {"none"},
                  d \in DriverTexts})
    /\ [][IntoResponse]_vars

\* -------------------------------------------------------- the API key check
\* An auth_middleware that lets every request with an Authorization header
\* through
auth_middleware_any_header(api_key, path, auth_header) ==
    IF path = "/health" \/ ~api_key.some \/ auth_header.some
    THEN [pass |-> TRUE, status |-> 0, code |-> 0]
    ELSE [pass |-> FALSE, status |-> 401, code |-> 401]

\* HeaderValue::to_str (auth.rs 37-39): the text of a header value, if every
\* byte of it is visible ASCII or a tab
to_str(value) ==
    IF \A i \in 1..Len(value) : CodePoint(value[i]) \in (32..126) \cup {9}
    THEN Some(value) ELSE None

\* auth_middleware: whether next.run is called, and the response if not
auth_middleware(api_key, path, auth_header) ==
    IF path = "/health" \/ ~api_key.some
    THEN [pass |-> TRUE, status |-> 0, code |-> 0]
    ELSE IF auth_header.some /\ to_str(auth_header.v).some
    THEN LET header_value == to_str(auth_header.v).v
             provided_key == IF StartsWith(header_value, <<"B","e","a","r","e","r"," ">>)
                             THEN SubSeq(header_value, 8, Len(header_value))
                             ELSE header_value
         IN  IF provided_key = api_key.v
             THEN [pass |-> TRUE, status |-> 0, code |-> 0]
             ELSE [pass |-> FALSE, status |-> 401, code |-> 401]
    ELSE [pass |-> FALSE, status |-> 401, code |-> 401]

\* A request arrives, the answer to the client's last one being gone: the
\* middleware runs, and health_handler behind it, which only reads the pool
AuthMiddleware(t, path, auth_header) ==
    /\ obs.op \in {"config", "auth"}
    /\ \/ task[t].pc = "done"
       \/ task[t].pc = "idle" /\ (obs.op = "auth" => ~obs.pass \/ obs.path = "/health")
    /\ obs' = [op |-> "auth", api_key |-> obs.api_key, path |-> path,
               auth_header |-> auth_header,
               pass |-> auth_middleware(obs.api_key, path, auth_header).pass,
               response |-> auth_middleware(obs.api_key, path, auth_header)]
    /\ Set(t, IdleTask)
    /\ UNCHANGED << browser, is_healthy, recreation_count, permits, recreation_lock,
                    readers, browser_pool_size, env, faults, gateVars, histVars >>

\* One client; next.run(request) starts the handler of the route
NextAuth ==
    \E t \in Tasks :
        \/ \E path \in {"/health", "/load", "/load/batch", "/"} :
           \E auth_header \in {None, Some(<<"s","e","c","r","e","t">>), Some(<<"B","e","a","r","e","r"," ">> \o <<"s","e","c","r","e","t">>),
                               Some(<<"g","u","e","s","s">>), Some(<<"B","e","a","r","e","r"," ">> \o <<"g","u","e","s","s">>),
                               Some(<<"b","e","a","r","e","r"," ">> \o <<"s","e","c","r","e","t">>), Some(<<"B","e","a","r","e","r"," ">>),
                               Some(<<"B","e","a","r","e","r"," ">> \o <<"B","e","a","r","e","r"," ">> \o <<"s","e","c","r","e","t">>),
                               Some(<<"s","e","c","r","e","t",Replacement>>)} :
              AuthMiddleware(t, path, auth_header)
        \/ /\ obs.op = "auth" /\ obs.pass
           /\ \E in \in Inputs :
                 \/ obs.path = "/load"
                    /\ Requests(rate_limits, validated[in.url].host) < MaxRequests
                    /\ LoadStart(t, in)
                 \/ obs.path = "/load/batch" /\ BatchStart(t, in)
                 \/ obs.path = "/" /\ OpenWebUIStart(t, in)
        \/ LoadRateLimit(t)
        \/ LoadLookup(t)
        \/ GpAcquire(t)
        \/ EbCheck1(t)
        \/ EbRead1(t)
        \/ EbLock(t)
        \/ EbStore(t)
        \/ \E o \in DriverOutcomes : EbCreate(t, o)
        \/ EbPublish(t)
        \/ EbSetHealthy(t)
        \/ EbCount(t)
        \/ GpHealthGate(t)
        \/ HcRead(t)
        \/ \E o \in DriverOutcomes : HcCall(t, o)
        \/ TgpRead(t)
        \/ \E o \in DriverOutcomes : TgpNewPage(t, o)
        \/ \E o \in DriverOutcomes : \E site \in SetupSites : TgpSetup(t, site, o)
        \/ \E o \in DriverOutcomes : \E site \in NavSites : NavigateAndWait(t, site, o)
        \/ \E ok \in BOOLEAN : Convert(t, ok)
        \/ \E o \in DriverOutcomes : \E site \in ShotSites : Screenshot(t, site, o)
        \/ InvStore(t)
        \/ InvTake(t)
        \/ HandlerTail(t)
        \/ HandlerStore(t)

\* The server runs with no API key or with one
SpecAuth ==
    InitDrawn({[op |-> "config", api_key |-> k] : k \in {None, Some(<<"s","e","c","r","e","t">>)}})
    /\ [][NextAuth]_vars

\* ------------------------------------------------------------- scheduling
\* NumTasks concurrent per-URL futures of POST / share the pool
InitLive == Init /\ env = [clients |-> NumTasks, budget |-> ConcurrentFaults]

\* The steps of task t on its way through process_url_with_retry
LiveStep(t) ==
    \/ \E in \in Inputs : OpenWebUIStart(t, in)
    \/ GpAcquire(t)
    \/ EbCheck1(t)
    \/ EbRead1(t)
    \/ EbLock(t)
    \/ EbRead2(t)
    \/ EbStore(t)
    \/ \E o \in DriverOutcomes : EbCreate(t, o)
    \/ EbPublish(t)
    \/ EbSetHealthy(t)
    \/ EbCount(t)
    \/ GpHealthGate(t)
    \/ HcRead(t)
    \/ \E o \in DriverOutcomes : HcCall(t, o)
    \/ TgpRead(t)
    \/ \E o \in DriverOutcomes : TgpNewPage(t, o)
    \/ \E o \in DriverOutcomes : \E site \in SetupSites : TgpSetup(t, site, o)
    \/ \E o \in DriverOutcomes : \E site \in NavSites : NavigateAndWait(t, site, o)
    \/ \E ok \in BOOLEAN : Convert(t, ok)
    \/ InvStore(t)
    \/ InvTake(t)
    \/ HandlerTail(t)

NextLive == \E t \in Tasks : LiveStep(t)

\* The tokio runtime polls every task that can go on, and its semaphore,
\* mutex and read-write lock hand over in arrival order: a task that can
\* take a step takes one
SpecLive == InitLive /\ [][NextLive]_vars /\ \A t \in Tasks : WF_vars(LiveStep(t))

\* ------------------------------------ the load handler and a failing domain
\* The clients of /load beside a caller of record_failure: one client whose
\* browser calls can fail, or NumTasks clients whose browser calls all answer
GateEnvironments ==
    { [clients |-> 1, budget |-> LoadFaults],
      [clients |-> NumTasks, budget |-> 0] }

InitGate == \E e \in GateEnvironments : InitServiceIn(e)

\* The clients send /load requests one after another, and a caller of
\* record_failure counts failures for the domain it asks for
NextGate ==
    \/ \E in \in LoadInputs :
          /\ validated[in.url].ok
          /\ Failures(circuit_breakers, validated[in.url].host) < CIRCUIT_FAILURE_THRESHOLD
          /\ RecordFailure(validated[in.url].host)
    \/ \E t \in Tasks :
        \/ \E in \in LoadInputs :
              /\ Requests(rate_limits, validated[in.url].host) < MaxRequests
              /\ LoadStart(t, in)
        \/ LoadRateLimit(t)
        \/ LoadLookup(t)
        \/ NextRequest(t)
        \/ GpAcquire(t)
        \/ EbCheck1(t)
        \/ EbRead1(t)
        \/ EbLock(t)
        \/ EbStore(t)
        \/ \E o \in DriverOutcomes : EbCreate(t, o)
        \/ EbPublish(t)
        \/ EbSetHealthy(t)
        \/ EbCount(t)
        \/ GpHealthGate(t)
        \/ HcRead(t)
        \/ \E o \in DriverOutcomes : HcCall(t, o)
        \/ TgpRead(t)
        \/ \E o \in DriverOutcomes : TgpNewPage(t, o)
        \/ \E o \in DriverOutcomes : \E site \in SetupSites : TgpSetup(t, site, o)
        \/ \E o \in DriverOutcomes : \E site \in NavSites : NavigateAndWait(t, site, o)
        \/ \E ok \in BOOLEAN : Convert(t, ok)
        \/ InvStore(t)
        \/ InvTake(t)
        \/ HandlerTail(t)
        \/ HandlerStore(t)

SpecGate == InitGate /\ [][NextGate]_vars

\* --------------------------------------------- one page, different options
\* One client asks for a page with no option set until a response is
\* stored, and from then on for the same page with the x-set-cookie and
\* x-wait-for-selector headers set
ShareInputs ==
    { [path |-> "load", url |-> in.url, respond_with |-> in.respond_with,
       cookies |-> cache # << >>, wait_for_selector |-> cache # << >>,
       no_cache |-> FALSE, cache_tolerance |-> None,
       target_selector |-> cache # << >>,
       remove_selector |-> cache # << >>] :
         in \in {i \in LoadInputs : validated[i.url].ok} }

NextShare ==
    \/ now < MaxAge /\ Tick(1)
    \/ \E t \in Tasks :
        \/ \E in \in ShareInputs :
              /\ Requests(rate_limits, validated[in.url].host) < MaxRequests
              /\ LoadStart(t, in)
        \/ LoadRateLimit(t)
        \/ LoadLookup(t)
        \/ NextRequest(t)
        \/ GpAcquire(t)
        \/ EbCheck1(t)
        \/ EbRead1(t)
        \/ EbLock(t)
        \/ EbStore(t)
        \/ \E o \in DriverOutcomes : EbCreate(t, o)
        \/ EbPublish(t)
        \/ EbSetHealthy(t)
        \/ EbCount(t)
        \/ GpHealthGate(t)
        \/ HcRead(t)
        \/ \E o \in DriverOutcomes : HcCall(t, o)
        \/ TgpRead(t)
        \/ \E o \in DriverOutcomes : TgpNewPage(t, o)
        \/ \E o \in DriverOutcomes : \E site \in SetupSites : TgpSetup(t, site, o)
        \/ \E o \in DriverOutcomes : \E site \in NavSites : NavigateAndWait(t, site, o)
        \/ \E ok \in BOOLEAN : Convert(t, ok)
        \/ InvStore(t)
        \/ InvTake(t)
        \/ HandlerTail(t)
        \/ HandlerStore(t)

SpecShare == InitService /\ [][NextShare]_vars

\* ---------------------------------------------------------------- markdown
\* Where the regex `pat` of markdown.rs matches s at position i, and what
\* replace_all puts there: [len, out], len = 0 when there is no match.
\* \s is a white-space character; a greedy run is taken whole.
regex_match(pat, s, i) ==
    LET rest == SubSeq(s, i, Len(s))
        ws == White_Space
        Run(from, cs) ==
            First(SubSeq(rest, from, Len(rest)),
                  {rest[j] : j \in from..Len(rest)} \ cs) - 1
        Find(from, c) ==
            IF \E j \in from..Len(rest) : rest[j] = c
            THEN from - 1 + First(SubSeq(rest, from, Len(rest)), {c})
            ELSE 0
        LastNewline(from, n) ==
            IF \E j \in from..(from + n - 1) : rest[j] = "\n"
            THEN CHOOSE j \in from..(from + n - 1) :
                     rest[j] = "\n" /\ \A k \in (j + 1)..(from + n - 1) : rest[k] # "\n"
            ELSE 0
        none == [len |-> 0, out |-> << >>]
    IN  CASE pat = "MULTIPLE_NEWLINES" ->
               IF Run(1, {"\n"}) >= 3
               THEN [len |-> Run(1, {"\n"}), out |-> <<"\n", "\n">>]
               ELSE none
          [] pat = "TRAILING_SPACES" ->
               Only({ IF k >= 1 /\ k < Len(rest) /\ rest[k + 1] = "\n"
                      THEN [len |-> k + 1, out |-> <<"\n">>]
                      ELSE none :
                      k \in {Run(1, {" ", "\t"})} })
          [] pat = "EMPTY_LINKS" ->
               IF Len(rest) >= 4 /\ SubSeq(rest, 1, 3) = <<"[", "]", "(">>
                  /\ Find(4, ")") > 0
               THEN [len |-> Find(4, ")"), out |-> << >>]
               ELSE none
          [] pat = "BROKEN_LINKS" ->
               IF Len(rest) >= 1 /\ rest[1] = "[" /\ Find(2, "]") > 0
               THEN Only({ Only({
                        IF k >= 1 /\ close + k < Len(rest)
                           /\ rest[close + k + 1] = "("
                           /\ Find(close + k + 2, ")") > 0
                        THEN [len |-> Find(close + k + 2, ")"),
                              out |-> <<"[">> \o SubSeq(rest, 2, close - 1)
                                      \o <<"]", "(">>
                                      \o SubSeq(rest, close + k + 2,
                                                Find(close + k + 2, ")") - 1)
                                      \o <<")">>]
                        ELSE none :
                        k \in {Run(close + 1, ws)} }) :
                      close \in {Find(2, "]")} })
               ELSE none
          [] pat = "code_block_pattern" ->
               IF Len(rest) >= 4 /\ SubSeq(rest, 1, 3) = <<Backtick, Backtick, Backtick>>
               THEN Only({ IF nl > 0
                           THEN [len |-> nl, out |-> <<Backtick, Backtick, Backtick, "\n">>]
                           ELSE none :
                           nl \in {LastNewline(4, Run(4, ws))} })
               ELSE none
          [] pat = "broken_inline_code" ->
               IF Len(rest) >= 3 /\ rest[1] = Backtick
               THEN Only({ IF k >= 1 /\ k + 1 < Len(rest) /\ rest[k + 2] = Backtick
                           THEN [len |-> k + 2, out |-> <<Backtick, " ", Backtick>>]
                           ELSE none :
                           k \in {Run(2, ws)} })
               ELSE none

\* Regex::replace_all from position i on: the leftmost match is replaced and
\* the search goes on behind it
RECURSIVE replace_all(_, _, _)
replace_all(pat, s, i) ==
    IF i > Len(s) THEN << >>
    ELSE Only({ IF m.len > 0
                THEN m.out \o replace_all(pat, s, i + m.len)
                ELSE << s[i] >> \o replace_all(pat, s, i + 1) :
                m \in {regex_match(pat, s, i)} })

\* str::lines: the text between line feeds, a carriage return before a line
\* feed dropped; no line after a final line feed
RECURSIVE lines(_)
lines(s) ==
    IF Len(s) = 0 THEN << >>
    ELSE Only({ IF k > Len(s) THEN << s >>
                ELSE << IF k > 1 /\ s[k - 1] = "\r" THEN SubSeq(s, 1, k - 2)
                        ELSE SubSeq(s, 1, k - 1) >>
                     \o lines(SubSeq(s, k + 1, Len(s))) :
                k \in {First(s, {"\n"})} })

\* [String]::join("\n")
RECURSIVE join(_)
join(ls) ==
    IF Len(ls) = 0 THEN << >>
    ELSE IF Len(ls) = 1 THEN ls[1]
    ELSE ls[1] \o <<"\n">> \o join(Tail(ls))

\* str::trim
trim(s) ==
    LET ws == White_Space
        text == {s[i] : i \in 1..Len(s)} \ ws
    IN  SubSeq(s, First(s, text),
               Len(s) - (First([i \in 1..Len(s) |-> s[Len(s) + 1 - i]], text) - 1))

\* fix_list_formatting: the loop over markdown.lines(), from line i on, with
\* the lines pushed so far and prev_was_list
RECURSIVE fix_list_formatting(_, _, _, _)
fix_list_formatting(ls, i, pushed, prev_was_list) ==
    IF i > Len(ls) THEN join(pushed)
    ELSE LET line == ls[i]
             trimmed == SubSeq(line, First(line, {line[j] : j \in 1..Len(line)}
                                                 \ White_Space),
                               Len(line))
             is_list_item ==
                 \/ StartsWith(trimmed, <<"-", " ">>)
                 \/ StartsWith(trimmed, <<"*", " ">>)
                 \/ StartsWith(trimmed, <<"+", " ">>)
                 \/ /\ Len(trimmed) >= 2
                    /\ IsDigit(trimmed[1])
                    /\ trimmed[2] \in {".", ")"}
         IN  fix_list_formatting(
                 ls, i + 1,
                 IF /\ is_list_item /\ ~prev_was_list /\ Len(pushed) > 0
                    /\ Len(pushed[Len(pushed)]) > 0
                 THEN pushed \o << << >>, line >>
                 ELSE Append(pushed, line),
                 is_list_item)

fix_code_blocks(markdown) ==
    Only({ replace_all("broken_inline_code", result, 1) :
           result \in {replace_all("code_block_pattern", markdown, 1)} })

\* EMPTY_HEADERS.is_match(line)
is_empty_header(line) ==
    \E h \in 1..6 :
        /\ h <= Len(line)
        /\ \A j \in 1..h : line[j] = "#"
        /\ \A j \in (h + 1)..Len(line) : line[j] \in White_Space

tidy_markdown(markdown) ==
    Only({ Only({ Only({ Only({ Only({ Only({
        trim(fix_code_blocks(listed)) :
        listed \in {fix_list_formatting(lines(spaced), 1, << >>, FALSE)} }) :
        spaced \in {replace_all("TRAILING_SPACES", squeezed, 1)} }) :
        squeezed \in {replace_all("MULTIPLE_NEWLINES", kept, 1)} }) :
        kept \in {join(SelectSeq(lines(linked), LAMBDA l : ~is_empty_header(l)))} }) :
        linked \in {replace_all("EMPTY_LINKS", mended, 1)} }) :
        mended \in {replace_all("BROKEN_LINKS", markdown, 1)} })

\* The texts given to tidy_markdown: up to MaxPieces pieces, one after the
\* other
RECURSIVE MarkdownTexts(_)
MarkdownTexts(n) ==
    IF n = 0 THEN {<< >>}
    ELSE MarkdownTexts(n - 1) \cup
         { t \o p : t \in MarkdownTexts(n - 1),
                    p \in { <<"a">>, <<"\n">>, <<" ", "\n">>, <<" ">>, <<"#">>,
                            <<"-", " ">>, <<Backtick>>, <<"[", "]">>, <<"(", "x", ")">> } }

\* A caller runs tidy_markdown on a text, and again on what it returned
TidyMarkdown ==
    /\ obs.op = "markdown"
    /\ obs' = Only({ [op |-> "tidy_markdown", markdown |-> obs.markdown,
                      once |-> once, twice |-> tidy_markdown(once)] :
                     once \in {tidy_markdown(obs.markdown)} })
    /\ UNCHANGED << browserVars, now, circuit_breakers, rate_limits, cache >>

SpecMarkdown ==
    InitDrawn({[op |-> "markdown", markdown |-> t] : t \in MarkdownTexts(MaxPieces)})
    /\ [][TidyMarkdown]_vars

\* ------------------------------------------------------------- properties
\* A caller holds a Page that get_page has returned and that is not dropped
HoldsReturnedPage(r) == r.page /\ ~InGetPage(r)

\* C1: at any instant at most browser_pool_size callers hold a Page returned
\* by get_page and not yet dropped (the permit lives as long as the page).
C1_PagesWithinPoolSize ==
    Cardinality({t \in Tasks : HoldsReturnedPage(task[t])}) <= browser_pool_size

\* C2: on every request path a URL is navigated only after validate_url has
\* accepted it.
C2_NavigatedOnlyIfValidated ==
    \A t \in Tasks :
        task[t].pc \in {"nav", "convert", "shot", "hung_content", "hung_screenshot"}
            => validated[task[t].in.url].ok

\* C3: in every reachable state is_healthy = TRUE implies that the browser
\* handle is present.
C3_HealthyImpliesHandle == is_healthy => browser = "Some"

\* Tasks whose create_browser call is in flight
Launching == {t \in Tasks : task[t].pc \in {"eb_create", "hung_launch"}}

\* C4 as stated: once an ensure_browser call made after an invalidation has
\* returned and no caller holds the recreation lock, exactly one browser has
\* been launched since and recreation_count is one more than before.
C4_ExactlyOneLaunch ==
    (epoch.clean /\ epoch.returned /\ \A t \in Tasks : task[t].pc \notin LockedPcs)
        => (epoch.ok = 1 /\ recreation_count = epoch.base + 1)

\* C4, amended: at most one create_browser call is in flight; between two
\* invalidations at most one launch succeeds, recreation_count has grown by
\* the number of successful launches, and the pool is healthy with a handle
\* only when exactly one launch has succeeded.
C4_AtMostOneLaunch ==
    /\ Cardinality(Launching) <= 1
    /\ Cardinality({t \in Tasks : task[t].pc \in LockedPcs}) <= 1
    /\ epoch.clean => epoch.ok <= 1
    /\ (epoch.clean /\ \A t \in Tasks : task[t].pc \notin PostCreatePcs)
           => recreation_count = epoch.base + epoch.ok
    /\ (epoch.clean /\ is_healthy /\ browser = "Some") => epoch.ok = 1

\* Two callers met in ensure_browser after an invalidation: one launched and
\* counted, the other holds the lock and finds the pool healthy again.
C4_Witness ==
    /\ epoch.clean /\ epoch.base >= 1 /\ epoch.ok = 1
    /\ recreation_count = epoch.base + 1
    /\ \E t \in Tasks : task[t].pc = "eb_read2" /\ browser = "Some"

\* The invalidate_browser call of process_url_with_retry is in progress, or
\* has been made for the error it returns
InvalidatedForLast(r) ==
    \/ (r.pc \in {"inv_store", "inv_take"} /\ r.inv_ret = "pwr")
    \/ (r.pc = "pwr_ret" /\ r.result.status = "err" /\ classified_connection(r.result.err))

\* C5: process_url_with_retry calls process_url at most 3 times; every
\* connection-classified error is followed by exactly one invalidate_browser
\* and, up to the third, one more attempt; Ok is returned at the first
\* success; the third connection error is the one returned.
C5_RetryBudget ==
    \A t \in Tasks :
        LET r == task[t]
        IN  /\ r.pu_calls <= MAX_REQUEST_RETRIES + 1
            /\ r.pc \notin {"idle", "check_rate", "cache_get", "done"} =>
                  /\ r.pu_calls = r.attempt + 1
                  /\ r.pwr_inv = IF InvalidatedForLast(r) THEN r.pu_calls
                                 ELSE r.pu_calls - 1
            /\ (r.pc = "pwr_ret" /\ r.result.status = "err"
                    /\ classified_connection(r.result.err)) =>
                  /\ r.pu_calls = MAX_REQUEST_RETRIES + 1
                  /\ r.result.err = r.err
            /\ (r.pc = "pwr_ret" /\ r.result.status = "ok") => r.err = NoError

\* Three connection errors in a row: three calls, three invalidations, the
\* last error returned.
C5_Witness ==
    \E t \in Tasks :
        /\ task[t].pc = "pwr_ret"
        /\ task[t].pu_calls = 3 /\ task[t].pwr_inv = 3
        /\ task[t].result.status = "err"
        /\ classified_connection(task[t].result.err)

\* process_url has just returned an error to task t that is not
\* connection-classified
ReturnsOtherError(t) ==
    /\ task'[t].err # task[t].err
    /\ task'[t].err # NoError
    /\ ~classified_connection(task'[t].err)

\* C6: when process_url fails with an error that is_connection_error
\* classifies as false, process_url_with_retry returns that same error at
\* once: no further attempt, no invalidate_browser.
C6_OtherErrorsSurface ==
    [][\A t \in Tasks :
          ReturnsOtherError(t) =>
              /\ task'[t].pc = "pwr_ret"
              /\ task'[t].result = [status |-> "err", err |-> task'[t].err]
              /\ task'[t].pu_calls = task[t].pu_calls
              /\ task'[t].pwr_inv = task[t].pwr_inv]_vars

\* A second attempt ended in a timeout, which was returned.
C6_Witness ==
    \E t \in Tasks :
        /\ task[t].pc = "pwr_ret"
        /\ task[t].pu_calls = 2 /\ task[t].pwr_inv = 1
        /\ task[t].result = [status |-> "err", err |-> TimeoutError]

\* C7: every browser call is wrapped in a deadline: no request waits for
\* ever on a call that never answers.
C7_NoCallAwaitedForEver ==
    \A t \in Tasks :
        task[t].pc \notin {"hung_launch", "hung_content", "hung_screenshot"}

\* C8: the permit of get_page is released on every exit path:
\* 0 <= available_slots() <= total_slots() in every state, and with no
\* get_page call in progress and no page outstanding they are equal.
C8_PermitsReleased ==
    /\ 0 <= permits
    /\ permits <= browser_pool_size
    /\ (\A t \in Tasks : ~InGetPage(task[t]) /\ ~task[t].page)
           => permits = browser_pool_size

\* get_page has failed (a failed page open, a failed launch or three failed
\* attempts), nothing is in progress and every permit is back.
C8_Witness ==
    /\ permits = browser_pool_size
    /\ \A t \in Tasks : ~InGetPage(task[t]) /\ ~task[t].page
    /\ \E t \in Tasks :
          /\ task[t].pc = "pwr_ret"
          /\ task[t].result.status = "err"
          /\ task[t].result.err.ctx \in {"create_page", "launch", "max_retries"}

\* C9: recreation_count never decreases; it grows by exactly 1 for each
\* successful launch (in the step that follows the launch in ensure_browser)
\* and no other step changes it.
C9_CountsSuccessfulLaunches ==
    /\ [](recreation_count
            + Cardinality({t \in Tasks : task[t].pc \in PostCreatePcs}) = launches)
    /\ [][/\ recreation_count' >= recreation_count
          /\ recreation_count' # recreation_count =>
                /\ recreation_count' = recreation_count + 1
                /\ \E t \in Tasks : /\ task[t].pc = "eb_count"
                                    /\ task'[t].pc # "eb_count"]_vars

\* A launch failed, a later one succeeded, invalidations happened in
\* between: the count is 2.
C9_Witness ==
    /\ recreation_count = 2
    /\ launches = 2
    /\ browser = "None"
    /\ \E t \in Tasks : task[t].gp_last = BrowserError("launch", "closed")

\* C10: when the first page open of a request fails with a
\* connection-classified error and every other browser call succeeds, the
\* request returns Ok, the pool ends healthy with a handle and
\* recreation_count has grown by exactly 1 (from 1 to 2).
C10_FirstOpenRecovered ==
    \A t \in Tasks :
        ( /\ task[t].pc = "pwr_ret"
          /\ task[t].open1_conn
          /\ faults = 1
          /\ \A u \in Tasks \ {t} : task[u].pc \in {"idle", "done", "pwr_ret"} )
        => ( /\ task[t].result.status = "ok"
             /\ is_healthy
             /\ browser = "Some"
             /\ recreation_count = 2 )

\* ------------------------------------------------------ the circuit breaker
\* What one service call does to the failure counter of its domain
C11_Step ==
    /\ obs'.op = "record_failure" /\ obs' # obs =>
          /\ Failures(circuit_breakers', obs'.domain)
                = Failures(circuit_breakers, obs'.domain) + 1
          /\ circuit_breakers'[obs'.domain].last_failure = now
    /\ obs'.op = "record_success" /\ obs' # obs =>
          /\ Failures(circuit_breakers', obs'.domain) = 0
          /\ obs'.domain \in DOMAIN circuit_breakers' =>
                ~circuit_breakers'[obs'.domain].open_until.some
          /\ \A t \in 0..MaxNow :
                check_circuit_breaker(circuit_breakers', obs'.domain, t)

\* What a check_circuit_breaker call answers, from the failures counted
\* since the last success and the time of the last of them
C11_Answer ==
    obs.op = "check_circuit_breaker" =>
        LET d == obs.domain
            n == Failures(circuit_breakers, d)
        IN  /\ n >= CIRCUIT_FAILURE_THRESHOLD =>
                 /\ circuit_breakers[d].open_until
                       = Some(circuit_breakers[d].last_failure + CIRCUIT_OPEN_SECS)
                 /\ obs.ok = (obs.at >= circuit_breakers[d].open_until.v)
            /\ n < CIRCUIT_FAILURE_THRESHOLD => obs.ok

\* C11: once 5 record_failure(d) calls have been made with no
\* record_success(d) in between, check_circuit_breaker(d) fails with
\* CircuitBreakerOpen at every time now < open_until and succeeds once
\* now >= open_until; one record_success(d) resets failures to 0 and clears
\* open_until, so that the next check succeeds.
C11_BreakerOpensAndResets == []C11_Answer /\ [][C11_Step]_vars

\* A check made after five failures, when open_until has passed, succeeds
C11_Witness ==
    /\ obs.op = "check_circuit_breaker"
    /\ Failures(circuit_breakers, obs.domain) >= CIRCUIT_FAILURE_THRESHOLD
    /\ obs.at >= circuit_breakers[obs.domain].open_until.v
    /\ obs.ok

\* C12: in every reachable circuit-breaker state, open_until is set exactly
\* when failures >= 5.
C12_OpenIffThreshold ==
    \A d \in DOMAIN circuit_breakers :
        circuit_breakers[d].open_until.some
            <=> circuit_breakers[d].failures >= CIRCUIT_FAILURE_THRESHOLD

\* The breaker of a domain has opened and its open_until has passed
C12_Witness ==
    \E d \in DOMAIN circuit_breakers :
        /\ circuit_breakers[d].failures >= CIRCUIT_FAILURE_THRESHOLD
        /\ circuit_breakers[d].open_until.some
        /\ now >= circuit_breakers[d].open_until.v

\* -------------------------------------------------------- the rate limiter
\* C13: within one 60 s window of a domain exactly the first
\* max_requests_per_page calls of check_rate_limit succeed and every further
\* call in that window fails with RateLimitExceeded; the first call made
\* after the window has expired resets the count and window_start to now
\* and succeeds.
C13_WindowedLimit ==
    obs.op = "check_rate_limit" =>
        LET entry == rate_limits[obs.domain]
            expired == /\ obs.before.some
                       /\ obs.at - obs.before.v.window_start > RATE_WINDOW_SECS
        IN  IF ~obs.before.some \/ expired
            THEN /\ entry = [requests |-> 1, window_start |-> obs.at]
                 /\ obs.ok
            ELSE /\ entry.window_start = obs.before.v.window_start
                 /\ entry.requests = obs.before.v.requests + 1
                 /\ obs.ok = (entry.requests <= max_requests_per_page)

\* A call is refused in a window where max_requests_per_page calls were made
C13_Witness ==
    /\ obs.op = "check_rate_limit"
    /\ obs.before.some
    /\ obs.at - obs.before.v.window_start <= RATE_WINDOW_SECS
    /\ obs.before.v.requests >= max_requests_per_page
    /\ ~obs.ok

C14_Start ==
    \A d \in DOMAIN rate_limits : rate_limits[d].window_start <= now

C14_Step ==
    \A d \in DOMAIN rate_limits :
        /\ d \in DOMAIN rate_limits'
        /\ rate_limits'[d].window_start = rate_limits[d].window_start =>
              rate_limits'[d].requests >= rate_limits[d].requests
        /\ rate_limits'[d].window_start # rate_limits[d].window_start =>
              /\ now - rate_limits[d].window_start > RATE_WINDOW_SECS
              /\ rate_limits'[d] = [requests |-> 1, window_start |-> now]
        /\ rate_limits'[d] # rate_limits[d] =>
              /\ obs'.op = "check_rate_limit"
              /\ obs'.domain = d

\* C14: a domain's requests counter never decreases across the
\* check_rate_limit calls of one window and is reset once at each window
\* crossing, window_start <= now in every state, and a check_rate_limit call
\* for one domain leaves the state of every other domain unchanged.
C14_CounterAndFrame == []C14_Start /\ [][C14_Step]_vars

\* A call has crossed the window of its domain while another domain has
\* an entry
C14_Witness ==
    /\ obs.op = "check_rate_limit"
    /\ obs.before.some
    /\ obs.at - obs.before.v.window_start > RATE_WINDOW_SECS
    /\ rate_limits[obs.domain].window_start = obs.at
    /\ \E d \in DOMAIN rate_limits : d # obs.domain

\* ---------------------------------------------------------------- the cache
\* C16: get_with_tolerance(key, tol) returns a response iff an entry exists
\* for key and its age is strictly less than tol when tol is given, else
\* strictly less than the entry's ttl (a tolerance larger than the ttl still
\* hits, a tolerance of 0 never hits); the value returned is a copy with
\* cached = true and the stored entry is not modified.
C16_ToleranceLookup ==
    obs.op = "get_with_tolerance" =>
        LET age == obs.at - obs.before.v.created_at
            max_age == IF obs.tolerance.some THEN obs.tolerance.v
                       ELSE obs.before.v.ttl
        IN  /\ obs.hit = (obs.before.some /\ age < max_age)
            /\ obs.tolerance = Some(0) => ~obs.hit
            /\ obs.hit =>
                  /\ obs.response.cached
                  /\ obs.response.url = obs.before.v.response.url
                  /\ obs.response.respond_with = obs.before.v.response.respond_with
                  /\ obs.response.content = obs.before.v.response.content
            /\ Found(obs.key) = obs.before
            /\ obs.before.some => ~cache[obs.key].response.cached

\* A lookup hits an entry older than its ttl through a larger tolerance
C16_Witness ==
    /\ obs.op = "get_with_tolerance"
    /\ obs.hit
    /\ obs.tolerance.some
    /\ obs.at - obs.before.v.created_at >= obs.before.v.ttl
    /\ obs.response.content < obs.at

\* C17: expired entries are removed lazily on read: after any cache read
\* (get or get_with_tolerance) that finds the entry expired and returns a
\* miss, that key is no longer present in the map.
C17_ExpiredRemovedOnRead ==
    /\ obs.op \in {"get", "get_with_tolerance"}
    /\ obs.before.some
    /\ obs.at - obs.before.v.created_at >= obs.before.v.ttl
    /\ ~obs.hit
    => obs.key \notin DOMAIN cache

\* --------------------------------------------------- the cache in /load
\* check_rate_limit lets the request of task t pass in this step: counted,
\* it is within max_requests_per_page for its domain
C15_Admitted(t) ==
    rate_limits'[validated[task[t].in.url].host].requests <= max_requests_per_page

\* The entry for the fingerprint of request `in` was stored by time `at` and
\* is then younger than (cache_tolerance ?? ttl)
C15_Fresh(in, at) ==
    LET key == cache_key(in.url, in.respond_with)
    IN  /\ key \in DOMAIN cache
        /\ cache[key].created_at <= at
        /\ at - cache[key].created_at
              < (IF in.cache_tolerance.some THEN in.cache_tolerance.v
                 ELSE cache[key].ttl)

\* The request of task t is answered from the entry, no page being acquired
C15_ServedFromCache(t) ==
    LET key == cache_key(task[t].in.url, task[t].in.respond_with)
    IN  /\ task'[t].pc = "done"
        /\ task'[t].response = [code |-> 200, document |-> TRUE, cached |-> TRUE,
                                content |-> Some(cache[key].response.content)]
        /\ task[t].pu_calls = 0 /\ task'[t].pu_calls = 0
        /\ ~task[t].page
        /\ UNCHANGED << permits, readers, browser, cache >>

\* A successful request stores the content it answers with
C15_StoresWhatItAnswers ==
    \A t \in Tasks :
        task[t].pc = "cache_set" /\ task'[t].pc = "done" =>
            LET key == cache_key(task[t].in.url, task[t].in.respond_with)
            IN  /\ task'[t].response.code = 200
                /\ ~task'[t].response.cached
                /\ task'[t].response.content = Some(cache'[key].response.content)

\* The step is load_handler answering request t, or calling
\* process_url_with_retry for it, after validate_url and the circuit
\* breaker have let it pass
C15_GateDecides(t) ==
    /\ task[t].pc \in {"check_rate", "cache_get"}
    /\ task'[t].pc \in {"done", "gp_acquire"}

\* C15 as stated: for every /load request with no_cache = false that
\* completes successfully, a later /load request with the same url and
\* respond_with made while the entry's age is below (cache_tolerance ?? ttl)
\* returns metadata.cached = true and content identical to the first
\* response, without any browser page being acquired. The later request
\* is, like the first, one with no_cache = false, and it is made when
\* load_handler receives it.
C15_LaterRequestIsCached ==
    [][ /\ C15_StoresWhatItAnswers
        /\ \A t \in Tasks :
              (/\ C15_GateDecides(t)
               /\ ~task[t].in.no_cache
               /\ C15_Fresh(task[t].in, task[t].arrived))
                  => C15_ServedFromCache(t) ]_vars

\* C15, amended: the same for a later request that check_rate_limit admits
\* and whose get_with_tolerance call runs while the entry's age is below
\* (cache_tolerance ?? ttl). Every admitted request with no_cache = false
\* makes that call; a request over the rate limit is answered
\* RateLimitExceeded although the entry is fresh, the cache as it was.
C15_AdmittedRequestIsCached ==
    [][ /\ C15_StoresWhatItAnswers
        /\ \A t \in Tasks :
              /\ (/\ task[t].pc = "cache_get" /\ task'[t] # task[t]
                  /\ C15_Fresh(task[t].in, now))
                     => C15_ServedFromCache(t)
              /\ (task[t].pc = "check_rate" /\ task'[t] # task[t]
                  /\ ~task[t].in.no_cache) =>
                     IF C15_Admitted(t)
                     THEN task'[t] = [task[t] EXCEPT !.pc = "cache_get"]
                     ELSE /\ task'[t].pc = "done"
                          /\ task'[t].response.code = status_code(RateLimitExceeded)
                          /\ cache' = cache ]_vars

\* A request has been answered from the cache with content fetched earlier
C15_Witness ==
    \E t \in Tasks :
        /\ task[t].pc = "done"
        /\ task[t].response.cached
        /\ task[t].response.content.some
        /\ task[t].response.content.v < now

\* Every entry of the cache is a whole response: the one stored for its
\* fingerprint, with the time it was stored at and a ttl
C18_Complete ==
    \A key \in DOMAIN cache :
        /\ DOMAIN cache[key] = {"response", "created_at", "ttl"}
        /\ DOMAIN cache[key].response = {"url", "respond_with", "content", "cached"}
        /\ cache[key].response.url = key[1]
        /\ cache[key].response.respond_with = key[2]
        /\ ~cache[key].response.cached
        /\ cache[key].created_at <= now

\* The cache changes only in the cache.set step that ends a /load request
\* whose process_url_with_retry returned Ok, and only at that request's
\* fingerprint
C18_Step ==
    /\ cache' # cache =>
          \E t \in Tasks :
              LET key == cache_key(task[t].in.url, task[t].in.respond_with)
              IN  /\ task[t].pc = "cache_set"
                  /\ task[t].in.path = "load"
                  /\ task[t].result.status = "ok"
                  /\ task'[t].pc = "done"
                  /\ task'[t].response.code = 200
                  /\ DOMAIN cache' = DOMAIN cache \cup {key}
                  /\ \A k \in DOMAIN cache : k # key => cache'[k] = cache[k]
    /\ \A t \in Tasks :
          /\ task[t].pc # "done"
          /\ task'[t].pc = "done"
          /\ task'[t].response.code # 200
          => cache' = cache

\* C18: the cache is written only after process_url_with_retry has returned
\* Ok for that request; a request that fails at any step never inserts or
\* replaces a cache entry; a concurrent reader observes either no entry or a
\* complete response.
C18_WrittenOnlyAfterOk == []C18_Complete /\ [][C18_Step]_vars

\* One request has failed in the pipeline while the cache holds the entry
\* another request stored
C18_Witness ==
    \E t, u \in Tasks :
        /\ task[t].pc = "done" /\ task[t].response.code = 200
        /\ ~task[t].response.cached
        /\ task[u].pc = "done" /\ task[u].response.code = 500
        /\ cache # << >>

\* No step of a no_cache request changes the cache, the request is never at
\* the cache lookup, and its answer has cached = false
C19_NoReadNoWrite ==
    \A t \in Tasks :
        /\ (task[t].pc \notin {"idle", "done"} /\ task[t].in.no_cache
            /\ task'[t] # task[t]) =>
               /\ cache' = cache
               /\ task'[t].pc # "cache_get"
               /\ task'[t].pc = "done" => ~task'[t].response.cached
        /\ \A in \in LoadInputs :
              (task[t].pc = "idle" /\ task'[t].pc # "idle" /\ task'[t].in = in
               /\ in.no_cache) => cache' = cache

\* load_handler receives the no_cache request `in` for task t and does not
\* refuse it in this step
C19_Received(t, in) ==
    /\ in.no_cache
    /\ task[t].pc = "idle"
    /\ task'[t] = [NewRequest(in) EXCEPT !.pc = "check_rate", !.arrived = now]

\* C19 as stated: a /load request with no_cache = true neither reads nor
\* writes the cache: it always runs the pipeline, its response has
\* cached = false, and every cache entry is the same after the request as
\* before it.
C19_AlwaysRunsPipeline ==
    [][ /\ C19_NoReadNoWrite
        /\ \A t \in Tasks :
              /\ \A in \in LoadInputs :
                    (LoadStart(t, in) /\ in.no_cache) => C19_Received(t, in)
              /\ (task[t].pc = "check_rate" /\ task[t].in.no_cache
                  /\ task'[t] # task[t]) =>
                     task'[t].pc = "gp_acquire" /\ task'[t].pu_calls = 1 ]_vars

\* C19, amended: it runs the pipeline unless validate_url, the circuit
\* breaker or the rate limiter refuses it, and a refused request is
\* answered with that error; the rest as stated.
C19_NoCacheBypasses ==
    [][ /\ C19_NoReadNoWrite
        /\ \A t \in Tasks :
              /\ \A in \in LoadInputs :
                    (LoadStart(t, in) /\ in.no_cache) =>
                        IF /\ validated[in.url].ok
                           /\ check_circuit_breaker(circuit_breakers,
                                                    validated[in.url].host, now)
                        THEN C19_Received(t, in)
                        ELSE /\ task'[t].pc = "done"
                             /\ task'[t].response.code \in {400, 403, 503}
                             /\ ~task'[t].response.cached
              /\ (task[t].pc = "check_rate" /\ task[t].in.no_cache
                  /\ task'[t] # task[t]) =>
                     IF C15_Admitted(t)
                     THEN task'[t].pc = "gp_acquire" /\ task'[t].pu_calls = 1
                     ELSE /\ task'[t].pc = "done"
                          /\ task'[t].response.code = 429
                          /\ ~task'[t].response.cached ]_vars

\* A request has been answered with content fetched after the content of
\* the entry for its fingerprint, which is still fresh and in place
C19_Witness ==
    \E t \in Tasks : \E key \in DOMAIN cache :
        /\ task[t].pc = "done"
        /\ task[t].response.code = 200
        /\ ~task[t].response.cached
        /\ task[t].response.content.v > cache[key].response.content
        /\ now - cache[key].created_at < cache[key].ttl

\* ------------------------------------------------------- the classifier
\* s contains p when letter case is ignored
C20_ContainsIgnoringCase(s, p) ==
    \E i \in 0..(Len(s) - Len(p)) :
        \A j \in 1..Len(p) : LowerChar(s[i + j]) = LowerChar(p[j])

\* C20: is_connection_error(err) is true iff err is a BrowserError and its
\* message contains, case-insensitively, one of the classifier patterns; it
\* is false for every other error kind whatever its text, false for the
\* messages "element not found", "timeout waiting for element", "invalid
\* selector" and "page load failed", and it changes no state.
C20_Classifier ==
    obs.op = "is_connection_error" =>
        /\ obs.ret =
              ( /\ obs.err.kind = "BrowserError"
                /\ \E i \in 1..Len(connection_error_patterns) :
                      C20_ContainsIgnoringCase(Payload(obs.err),
                                               connection_error_patterns[i]) )
        /\ obs.err.kind # "BrowserError" => ~obs.ret
        /\ /\ obs.err.ctx = "none"
           /\ obs.err.drv \in {"notfound", "timeout_waiting", "invalid_selector",
                               "page_load_failed"}
           => ~obs.ret
        /\ now = 0 /\ cache = << >> /\ circuit_breakers = << >>
        /\ rate_limits = << >> /\ is_healthy /\ browser = "Some"

\* A BrowserError is classified as a connection error through a pattern
\* written in another letter case than its message
C20_Witness ==
    /\ obs.op = "is_connection_error"
    /\ obs.err = BrowserError("none", "upper_channel")
    /\ obs.ret

\* ------------------------------------------------------------ validate_url
\* The call observed was given a string that parses as an http or https URL
\* with a host
C21_HttpUrlWithHost ==
    /\ obs.op = "validate_url"
    /\ obs.url.ok
    /\ obs.url.scheme \in {<<"h","t","t","p">>, <<"h","t","t","p","s">>}
    /\ obs.url.has_host

\* host is localhost, 127.0.0.1, 0.0.0.0 or the IPv6 literal ::1, or a
\* dot-separated subdomain of one of them, whatever the case of its letters
C21_NamedHost(host) ==
    \E name \in {<<"l","o","c","a","l","h","o","s","t">>, <<"1","2","7",".","0",".","0",".","1">>, <<"0",".","0",".","0",".","0">>, <<":",":","1">>} :
        \/ to_lowercase(host) = name
        \/ to_lowercase(host) = <<"[">> \o name \o <<"]">>
        \/ EndsWith(to_lowercase(host), <<".">> \o name)

\* host is an IPv4 literal that is loopback, RFC 1918 private or link-local
C21_InternalIpv4(host) ==
    \E ip \in {ParseIpAddr(host)} :
        /\ ip.ok /\ ~ip.v6
        /\ \/ ip.octets[1] = 127
           \/ ip.octets[1] = 10
           \/ (ip.octets[1] = 172 /\ ip.octets[2] \in 16..31)
           \/ (ip.octets[1] = 192 /\ ip.octets[2] = 168)
           \/ (ip.octets[1] = 169 /\ ip.octets[2] = 254)

\* C21: validate_url fails with BlockedUrl for every http(s) URL whose host
\* is localhost, 127.0.0.1, 0.0.0.0, ::1 or a subdomain of one of them, or an
\* internal IPv4 literal; the blocked-host check comes before the TLD check,
\* so such a host is never answered InvalidUrl.
C21_InternalHostsBlocked ==
    /\ C21_HttpUrlWithHost
    /\ (C21_NamedHost(obs.url.host) \/ C21_InternalIpv4(obs.url.host))
    => /\ ~obs.ret.ok
       /\ obs.ret.err.kind = "BlockedUrl"

\* C22: validate_url fails with InvalidUrl for a string that does not parse,
\* for a scheme other than http and https, for a URL without a host and for a
\* host that is not blocked and contains no '.'; it returns the parsed Url
\* only when every check has passed.  What a string is, is what was worked
\* out for it by hand.  No http or https URL is without a host, Url::parse
\* taking no such string.
C22_InvalidUrls ==
    obs.op = "validate_url" =>
        /\ obs.kind \in {"not_url", "other_scheme", "no_dot"}
              => (~obs.ret.ok /\ obs.ret.err.kind = "InvalidUrl")
        /\ obs.kind = "not_url" => ~obs.url.ok
        /\ (obs.url.ok /\ obs.url.scheme \in {<<"h","t","t","p">>, <<"h","t","t","p","s">>})
              => obs.url.has_host
        /\ obs.ret.ok = (obs.kind = "passes")
        /\ obs.ret.ok => (obs.ret.host = obs.host_str /\ obs.url.host = obs.host_str)

\* http://intranet/x has been refused for its host without a '.'
C22_Witness ==
    /\ obs.op = "validate_url"
    /\ obs.url_str = <<"h","t","t","p",":","/","/","i","n","t","r","a","n","e","t","/","x">>
    /\ obs.kind = "no_dot"
    /\ obs.url.ok
    /\ obs.url.host = <<"i","n","t","r","a","n","e","t">>
    /\ obs.ret.err = InvalidUrl("tld")

\* C23: validate_url("https://[::1]/") fails with BlockedUrl (403), not
\* with InvalidUrl.
C23_BracketedLoopbackBlocked ==
    (obs.op = "validate_url" /\ obs.url_str = <<"h","t","t","p","s",":","/","/","[",":",":","1","]","/">>)
    => /\ ~obs.ret.ok
       /\ obs.ret.err.kind = "BlockedUrl"
       /\ status_code(obs.ret.err) = 403

\* --------------------------------------------------------------- batches
\* C24: a /load/batch or POST / request whose urls list has more than
\* max_domains_per_page entries fails as a whole with TooManyDomains before
\* any URL is processed, whatever the entries are.
C24_LongListRefused ==
    (obs.op \in {"batch", "answered"} /\ Len(obs.urls) > max_domains_per_page)
    => /\ obs.op = "answered"
       /\ ~obs.answer.ok
       /\ obs.answer.err.kind = "TooManyDomains"
       /\ \A t \in Tasks : task[t].pc = "idle"

\* The error of a result was produced by a browser call of that URL's own
\* future: a driver error or a call that ran into its deadline.  "Browser not
\* initialized" is not: try_get_page answers it when the handle is gone.
C25_OwnFailure(err) ==
    \/ err.drv # "none"
    \/ err.kind # "BrowserError"
    \/ err.ctx \in {"timeout_page", "timeout_ua", "timeout_cookies"}

\* C25: a /load/batch response holds exactly one result per input URL, in
\* input order whatever the order in which the futures finish; each result
\* has exactly one of response and error; the failure of one URL neither
\* fails the batch nor changes the results of the other URLs.
C25_OneResultPerUrl ==
    (/\ obs.op = "answered"
     /\ obs.path = "batch"
     /\ Len(obs.order) = Len(obs.urls))
    => /\ obs.answer.ok
       /\ Len(obs.answer.results) = Len(obs.urls)
       /\ \A i \in 1..Len(obs.urls) :
             /\ obs.answer.results[i].url = obs.urls[i]
             /\ obs.answer.results[i].response # obs.answer.results[i].error
             /\ obs.answer.results[i].error
                   => C25_OwnFailure(obs.answer.results[i].err)

\* ------------------------------------------------------------ status codes
\* C26: every error kind has one fixed HTTP status (InvalidUrl and
\* TooManyDomains 400; Unauthorized and InvalidApiKey 401; BlockedUrl 403;
\* RateLimitExceeded 429; CircuitBreakerOpen 503; Timeout 504; every other
\* kind 500), and the body of the error response carries the same status in
\* its code field.
C26_StatusByKind ==
    obs.op = "into_response" =>
        /\ obs.response.status =
              CASE obs.err.kind \in {"InvalidUrl", "TooManyDomains"} -> 400
                [] obs.err.kind \in {"Unauthorized", "InvalidApiKey"} -> 401
                [] obs.err.kind = "BlockedUrl" -> 403
                [] obs.err.kind = "RateLimitExceeded" -> 429
                [] obs.err.kind = "CircuitBreakerOpen" -> 503
                [] obs.err.kind = "Timeout" -> 504
                [] OTHER -> 500
        /\ obs.response.body.code = obs.response.status

\* A TooManyDomains error has been answered 400
C26_Witness ==
    /\ obs.op = "into_response"
    /\ obs.err.kind = "TooManyDomains"
    /\ obs.response.status = 400
    /\ obs.response.body.code = 400

\* ------------------------------------------------------------- the API key
\* The last request came to a server with an API key, for a route other
\* than /health, with no Authorization header or with one that, after an
\* optional "Bearer " prefix is taken off, differs from the key
C27_Unauthorized ==
    /\ obs.op = "auth"
    /\ obs.api_key.some
    /\ obs.path # "/health"
    /\ \/ ~obs.auth_header.some
       \/ obs.auth_header.v \notin {obs.api_key.v, <<"B","e","a","r","e","r"," ">> \o obs.api_key.v}

C27_Answer ==
    /\ C27_Unauthorized =>
          /\ ~obs.pass
          /\ obs.response.status = 401
          /\ obs.response.code = 401
          /\ \A t \in Tasks : task[t].pc = "idle"
    /\ (obs.op = "auth" /\ ~obs.api_key.some) => obs.pass

C27_Step ==
    (C27_Unauthorized \/ C27_Unauthorized')
    => UNCHANGED << cache, rate_limits, circuit_breakers, browser, is_healthy,
                    recreation_count, permits, recreation_lock, readers, launches >>

\* C27: with an API key configured no handler other than /health runs for a
\* request whose Authorization header is missing or differs from the key:
\* it is answered 401 and the cache, the rate limits, the circuit breakers
\* and the pool stay as they are; with no key configured every request
\* reaches its handler.
C27_KeyGuardsHandlers == []C27_Answer /\ [][C27_Step]_vars

\* After a request with the key has run its handler, one with a wrong key
\* has been refused
C27_Witness ==
    /\ C27_Unauthorized
    /\ obs.auth_header = Some(<<"B","e","a","r","e","r"," ">> \o <<"g","u","e","s","s">>)
    /\ obs.path = "/load"
    /\ obs.response.status = 401
    /\ DOMAIN rate_limits # {}

\* ---------------------------------------------------------------- markdown
\* C28: tidy_markdown is idempotent: for every input string, lines of only
\* spaces and tabs included, tidy_markdown(tidy_markdown(s)) is
\* tidy_markdown(s).
C28_Idempotent ==
    obs.op = "tidy_markdown" => obs.twice = obs.once

\* ---------------------------------------------------------------- get_page
\* Positions inside try_get_page
C29_TryPcs == {"tgp_read", "tgp_newpage", "tgp_setup"}

\* The step of task t is an Err of try_get_page: it either starts
\* invalidate_browser for get_page with a connection-classified error
\* recorded, the attempt number kept, or get_page returns that error, which is
\* not connection-classified, at once, the handle and the health flag
\* untouched
C29_TryFailed(t) ==
    LET r == task[t]
        n == task'[t]
    IN  (r.pc \in C29_TryPcs /\ n # r /\ n.pc \notin C29_TryPcs \cup {"nav"}) =>
            \/ /\ n.pc = "inv_store" /\ n.inv_ret = "gp"
               /\ n.gp_last # NoError /\ classified_connection(n.gp_last)
               /\ n.gp_attempt = r.gp_attempt
            \/ /\ n.pc = "pwr_ret" /\ n.result = [status |-> "err", err |-> n.err]
               /\ n.err # NoError /\ ~classified_connection(n.err)
               /\ browser' = browser /\ is_healthy' = is_healthy

\* The step of task t ends the invalidate_browser that get_page called: the
\* next attempt follows, or after the third the last recorded error is
\* returned (the fixed text when none was recorded)
C29_AfterInvalidate(t) ==
    LET r == task[t]
        n == task'[t]
    IN  (r.pc = "inv_take" /\ r.inv_ret = "gp" /\ n # r) =>
            IF r.gp_attempt + 1 < MAX_RETRIES
            THEN n.pc = "eb_check1" /\ n.gp_attempt = r.gp_attempt + 1
                 /\ n.gp_last = r.gp_last
            ELSE n.err = IF r.gp_last = NoError
                         THEN BrowserError("max_retries", "none") ELSE r.gp_last

C29_Step == \A t \in Tasks : C29_TryFailed(t) /\ C29_AfterInvalidate(t)

\* C29: within one get_page call at most 3 attempts are made; an Err of
\* try_get_page that is classified as a connection error causes
\* invalidate_browser and another attempt, any other Err is returned at once
\* without invalidating the browser, and after 3 failed attempts get_page
\* returns the last recorded error.
C29_ThreeAttempts ==
    /\ [](\A t \in Tasks : task[t].gp_attempt < MAX_RETRIES)
    /\ [][C29_Step]_vars

\* get_page has returned the connection-classified error of its third
\* try_get_page to process_url_with_retry
C29_Witness ==
    \E t \in Tasks :
        /\ task[t].pc = "inv_store" /\ task[t].inv_ret = "pwr"
        /\ task[t].err.kind = "BrowserError"
        /\ task[t].err.ctx \in {"timeout_page", "create_page", "timeout_ua",
                                "set_ua", "timeout_cookies", "set_cookies"}
        /\ classified_connection(task[t].err)
        /\ faults >= MAX_RETRIES

\* C30: when another task's invalidate_browser removes the shared handle
\* between a caller's ensure_browser and its try_get_page, the caller's
\* get_page retries with a re-created browser: no process_url_with_retry
\* returns, without a retry of its own, the error of the missing handle.
C30_MissingHandleRetried ==
    \A t \in Tasks :
        (task[t].pc = "pwr_ret" /\ task[t].result.status = "err"
         /\ task[t].pu_calls = 1 /\ task[t].pwr_inv = 0) =>
            task[t].result.err # BrowserError("not_initialized", "none")

\* ------------------------------------------------------ read lock and calls
\* C31: a task never holds the read lock of the browser handle while it
\* awaits a browser call (new_page in try_get_page, the new_page / evaluate /
\* close sequence of health_check), so that no invalidate_browser waits for
\* the write lock behind a browser call in flight.
C31_NoReadLockAcrossCall ==
    /\ \A t \in Tasks : task[t].pc \in {"tgp_newpage", "hc_call"} => t \notin readers
    /\ \A t \in Tasks : task[t].pc = "inv_take" => readers = {}

\* Task t is inside a get_page call
C32_InGetPage(t) ==
    \/ task[t].pc \in {"gp_acquire"} \cup GetPagePcs
    \/ task[t].pc \in {"inv_store", "inv_take"} /\ task[t].inv_ret = "gp"

\* Some browser call never returns
C32_CallNeverReturns ==
    \E u \in Tasks : task[u].pc \in {"hung_launch", "hung_content", "hung_screenshot"}

\* C32: no interleaving of get_page, ensure_browser, health_check,
\* invalidate_browser and page drops of concurrent requests leaves a task
\* waiting for ever on the semaphore, the recreation mutex or the read-write
\* lock: provided every browser call returns, every get_page call
\* eventually returns a page or an error.
C32_GetPageReturns ==
    \A t \in Tasks :
        C32_InGetPage(t) ~> (~C32_InGetPage(t) \/ C32_CallNeverReturns)

\* invalidate_browser of one task waits for the write lock while another
\* task holds the read lock across its browser call
C32_Witness ==
    \E t, u \in Tasks :
        t # u /\ task[t].pc = "inv_take" /\ task[t].inv_ret = "gp" /\ u \in readers

\* -------------------------------------------------------- navigate_and_wait
\* The step of task t is a navigate_and_wait call: it leaves the handle and
\* recreation_count alone, and when it returns an error that is classified
\* as a connection error, is_healthy is false afterwards
C33_Call(t) ==
    (task[t].pc = "nav" /\ task'[t] # task[t]) =>
        /\ browser' = browser
        /\ recreation_count' = recreation_count
        /\ (/\ task'[t].pc \in {"inv_store", "pwr_ret"}
            /\ classified_connection(task'[t].err)) => ~is_healthy'

\* C33: whenever navigate_and_wait fails at any of its steps (goto,
\* readyState, the selector wait, content) with an error whose text matches
\* the connection-error patterns, that call has cleared is_healthy;
\* navigate_and_wait never drops or replaces the handle and never changes
\* recreation_count.
C33_ConnectionFailureClearsHealth == [][\A t \in Tasks : C33_Call(t)]_vars

\* ------------------------------------------------- the order of the gate
\* The answer `code` has been sent with no document
C34_Refused(t, code) ==
    task'[t].pc = "done" /\ task'[t].response.code = code /\ ~task'[t].response.document

\* The steps of load_handler before the pipeline, each with its own look at
\* the clock: validate_url and the circuit breaker, which count nothing;
\* then the rate limiter, which counts the request; then, for a counted
\* request only, the cache lookup; then the pipeline
C34_Gate(t) ==
    LET r == task[t]
        q == task'[t]
    IN  /\ (r.pc = "idle" /\ q.pc # "idle") =>
              /\ UNCHANGED << rate_limits, circuit_breakers, cache >>
              /\ \/ C34_Refused(t, 400)
                 \/ C34_Refused(t, 403)
                 \/ /\ C34_Refused(t, 503)
                    /\ \E d \in DOMAIN circuit_breakers :
                          /\ circuit_breakers[d].open_until.some
                          /\ now < circuit_breakers[d].open_until.v
                 \/ /\ q.pc = "check_rate"
                    /\ validated[q.in.url].ok
                    /\ check_circuit_breaker(circuit_breakers,
                                             validated[q.in.url].host, now)
        /\ (r.pc = "check_rate" /\ q # r) =>
              /\ UNCHANGED << circuit_breakers, cache >>
              /\ rate_limits' # rate_limits
              /\ rate_limits'
                    = check_rate_limit(rate_limits, validated[r.in.url].host, now).rl
              /\ Requests(rate_limits', validated[r.in.url].host) >= 1
              /\ IF ~C15_Admitted(t)
                 THEN C34_Refused(t, 429)
                 ELSE q.pc = IF r.in.no_cache THEN "gp_acquire" ELSE "cache_get"
        /\ (r.pc = "cache_get" /\ q # r) =>
              /\ UNCHANGED << rate_limits, circuit_breakers, cache >>
              /\ Requests(rate_limits, validated[r.in.url].host) >= 1
              /\ \/ /\ q.pc = "done"
                    /\ q.response.code = 200
                    /\ q.response.cached
                 \/ q.pc = "gp_acquire"
        /\ (r.pc # "check_rate" /\ q.pc = "check_rate") => r.pc = "idle"
        /\ (r.pc # "cache_get" /\ q.pc = "cache_get") => r.pc = "check_rate"
        /\ (r.pc # "gp_acquire" /\ q.pc = "gp_acquire" /\ q.pu_calls = 1) =>
              r.pc \in {"check_rate", "cache_get"}

\* record_success belongs to the step that follows a successful pipeline
\* run and the cache store to the step after that one, and to no other step
\* of a request
C34_Tail ==
    /\ (task' # task /\ circuit_breakers' # circuit_breakers) =>
          \E t \in Tasks : /\ task[t].pc = "pwr_ret" /\ task[t].result.status = "ok"
                           /\ task'[t].pc \in {"cache_set", "done"}
    /\ cache' # cache =>
          \E t \in Tasks : task[t].pc = "cache_set" /\ task'[t].pc = "done"
    /\ \A t \in Tasks :
          /\ (task[t].pc = "pwr_ret" /\ task'[t] # task[t]) =>
                /\ cache' = cache
                /\ circuit_breakers' =
                      IF task[t].result.status = "ok"
                      THEN record_success(circuit_breakers, validated[task[t].in.url].host)
                      ELSE circuit_breakers
          /\ (task[t].pc # "cache_set" /\ task'[t].pc = "cache_set") =>
                task[t].pc = "pwr_ret" /\ task[t].result.status = "ok"
          /\ (task[t].pc = "cache_set" /\ task'[t] # task[t]) =>
                /\ circuit_breakers' = circuit_breakers
                /\ task'[t].pc = "done"
                /\ cache_key(task[t].in.url, task[t].in.respond_with) \in DOMAIN cache'

\* C34: in the single-URL path the steps run in the order validate_url,
\* check_circuit_breaker, check_rate_limit, cache lookup, pipeline,
\* record_success, cache store: a request refused by the circuit breaker
\* consumes no rate-limit quota, a cache hit does (and a rate-limited request
\* fails even when a fresh entry exists), and record_success is called only
\* after a successful pipeline run, not on a cache hit.
C34_OrderOfSteps ==
    [][ C34_Tail /\ \A t \in Tasks : C34_Gate(t) ]_vars

\* A request has been refused by the rate limiter while the entry of its
\* fingerprint is fresh, and a record_success has set the failures counted
\* for a domain back to 0
C34_Witness ==
    \E t \in Tasks : \E key \in DOMAIN cache :
        /\ task[t].pc = "done" /\ task[t].response.code = 429
        /\ now - cache[key].created_at < cache[key].ttl
        /\ \E d \in DOMAIN circuit_breakers : circuit_breakers[d].failures = 0

\* ------------------------------------------------ the breaker in the handlers
\* C35: through the request handlers (POST /load, POST /load/batch, POST /)
\* record_failure is never invoked: whatever the requests and the pipeline
\* failures, no failure is counted for any domain, no circuit is open and no
\* request is answered CircuitBreakerOpen.
C35_CircuitNeverOpens ==
    /\ \A d \in DOMAIN circuit_breakers :
          /\ circuit_breakers[d].failures = 0
          /\ ~circuit_breakers[d].open_until.some
    /\ \A u \in {i.url : i \in Inputs} :
          validated[u].ok => check_circuit_breaker(circuit_breakers, validated[u].host, now)
    /\ \A t \in Tasks :
          /\ task[t].response.code # status_code(CircuitBreakerOpen)
          /\ task[t].result.err.kind # "CircuitBreakerOpen"

\* The pipeline of a /load request has failed after MaxFaults failing
\* browser calls and the request has been answered with the error
C35_Witness ==
    \E t \in Tasks :
        /\ task[t].pc = "done"
        /\ task[t].response.code \in {500, 504}
        /\ faults = MaxFaults

\* ------------------------------------------------------- take_screenshot
\* The step of task t is take_screenshot failing with a driver text that
\* matches the connection patterns: is_healthy is cleared, the handle stays,
\* and process_url_with_retry returns the ScreenshotError, which is not
\* classified as a connection error, with no retry and no invalidate_browser
C36_ScreenshotFails(t) ==
    (/\ task[t].pc = "shot" /\ task'[t].pc # "shot"
     /\ task'[t].err.kind = "ScreenshotError"
     /\ task'[t].err.drv \in connection_texts) =>
        /\ ~is_healthy'
        /\ browser' = browser
        /\ recreation_count' = recreation_count
        /\ ~classified_connection(task'[t].err)
        /\ task'[t].pc = "pwr_ret"
        /\ task'[t].result = [status |-> "err", err |-> task'[t].err]
        /\ task'[t].pu_calls = task[t].pu_calls
        /\ task'[t].pwr_inv = task[t].pwr_inv

\* The step of task u belongs to an ensure_browser that finds is_healthy
\* false: it takes the recreation lock and goes on to launch a browser
C36_Relaunches(u) ==
    /\ (task[u].pc = "eb_check1" /\ task'[u] # task[u] /\ ~is_healthy) =>
          task'[u].pc = "eb_lock"
    /\ (task[u].pc = "eb_lock" /\ task'[u] # task[u] /\ ~is_healthy) =>
          task'[u].pc = "eb_store" /\ recreation_lock' = u
    /\ (task[u].pc = "eb_store" /\ task'[u] # task[u]) => task'[u].pc = "eb_create"

\* C36: a connection-pattern failure inside take_screenshot clears
\* is_healthy but surfaces as ScreenshotError, which is not classified as a
\* connection error: the screenshot request fails without retry and without
\* invalidate_browser, the stale handle stays in the pool, and the next
\* get_page re-launches the browser through ensure_browser.
C36_ScreenshotFailure ==
    [][\A t \in Tasks : C36_ScreenshotFails(t) /\ C36_Relaunches(t)]_vars

\* The only failing call was the page.screenshot of one request, which has
\* returned its ScreenshotError after one process_url call, and a second
\* browser has been launched since
C36_Witness ==
    \E t \in Tasks :
        /\ task[t].pc = "pwr_ret"
        /\ task[t].result = [status |-> "err", err |-> ScreenshotError("closed")]
        /\ task[t].pu_calls = 1 /\ task[t].pwr_inv = 0
        /\ faults = 1
        /\ launches = 2
        /\ browser = "Some"

\* ------------------------------------------------------- the fingerprint
\* The step is the cache lookup of a request with cookies and a selector to
\* wait for, made while the entry of its url and format is younger than the
\* TTL: the request is answered from that entry
C37_SecondIsCached(t) ==
    LET in == task[t].in
        key == cache_key(in.url, in.respond_with)
    IN  (/\ task[t].pc = "cache_get" /\ task'[t] # task[t]
         /\ in.cookies /\ in.wait_for_selector
         /\ key \in DOMAIN cache
         /\ now - cache[key].created_at < cache_ttl) =>
            /\ task'[t].pc = "done"
            /\ task'[t].response = [code |-> 200, document |-> TRUE, cached |-> TRUE,
                                    content |-> Some(cache[key].response.content)]
            /\ task'[t].pu_calls = 0
            /\ cache' = cache

\* Whatever its options, a request the rate limiter lets pass looks its
\* fingerprint up next
C37_OptionsLookUp(t) ==
    (task[t].pc = "check_rate" /\ task'[t] # task[t] /\ C15_Admitted(t)) =>
        task'[t] = [task[t] EXCEPT !.pc = "cache_get"]

\* A response is stored under its url and format, whatever the options
C37_StoredByUrlAndFormat(t) ==
    (task[t].pc = "cache_set" /\ task'[t].pc = "done") =>
        /\ DOMAIN cache' = DOMAIN cache \cup {<< task[t].in.url, task[t].in.respond_with >>}
        /\ \A k \in DOMAIN cache : k \in DOMAIN cache' /\
              (k # << task[t].in.url, task[t].in.respond_with >> => cache'[k] = cache[k])

\* C37: the cache fingerprint depends only on url and respond_with: two
\* /load requests for the same url and format that differ in their options
\* (selectors, summary flags, cookies, user agent) share one cache entry, so
\* within the TTL the second receives the first's content with cached = true.
C37_OptionsShareEntry ==
    /\ [](\A k \in DOMAIN cache : \E in \in LoadInputs : k = << in.url, in.respond_with >>)
    /\ [][\A t \in Tasks : /\ C37_StoredByUrlAndFormat(t)
                           /\ C37_OptionsLookUp(t)
                           /\ C37_SecondIsCached(t)]_vars

\* The second request of the domain, the one with options, has been
\* answered from the entry the first one stored
C37_Witness ==
    \E t \in Tasks : \E d \in DOMAIN rate_limits :
        /\ task[t].pc = "done"
        /\ task[t].response.code = 200 /\ task[t].response.cached
        /\ task[t].response.content.v < now
        /\ rate_limits[d].requests = 2

\* ------------------------------------------------------ the ttl of an entry
\* C38: an entry stored by a successful /load run is stored with the
\* configured default TTL whatever cache_tolerance the storing request
\* carried: a later reader of the same fingerprint that supplies no
\* tolerance gets a hit for the whole default TTL after the write.
C38_StoredWithDefaultTtl ==
    \A key \in DOMAIN cache :
        /\ cache[key].ttl = cache_ttl
        /\ get_with_tolerance(cache, key, None, now).hit
              = (now - cache[key].created_at < cache_ttl)

\* --------------------------------------------------- the breaker re-opens
\* The step is a record_failure for a domain whose circuit has opened, with
\* no record_success since: the counter goes on from where it was and the
\* circuit is open for CIRCUIT_OPEN_SECS from this failure
C39_FailureAfterOpening ==
    (obs'.op = "record_failure" /\ circuit_breakers' # circuit_breakers
     /\ Failures(circuit_breakers, obs'.domain) >= CIRCUIT_FAILURE_THRESHOLD) =>
        LET d == obs'.domain
        IN  /\ circuit_breakers'[d].failures = circuit_breakers[d].failures + 1
            /\ circuit_breakers'[d].open_until = Some(now + CIRCUIT_OPEN_SECS)
            /\ \A t \in now .. (now + CIRCUIT_OPEN_SECS - 1) :
                  ~check_circuit_breaker(circuit_breakers', d, t)
            /\ check_circuit_breaker(circuit_breakers', d, now + CIRCUIT_OPEN_SECS)

\* The counter of a domain changes in record_failure and record_success
\* calls only: neither the clock nor a check resets it
C39_NoSilentReset ==
    circuit_breakers' # circuit_breakers => obs'.op \in {"record_failure", "record_success"}

\* Once the cooldown is over check_circuit_breaker passes, the counter at or
\* above the threshold
C39_PassesAfterCooldown ==
    \A d \in DOMAIN circuit_breakers :
        (circuit_breakers[d].open_until.some /\ now >= circuit_breakers[d].open_until.v) =>
            /\ check_circuit_breaker(circuit_breakers, d, now)
            /\ circuit_breakers[d].failures >= CIRCUIT_FAILURE_THRESHOLD

\* C39: once a domain's cooldown has elapsed (now >= open_until) without a
\* record_success, the failures counter is not reset: check_circuit_breaker
\* passes, and the very next single record_failure re-opens the circuit for
\* another 60 s; a record_failure while the circuit is open moves open_until
\* to 60 s after that failure.
C39_ReopensAfterOneFailure ==
    /\ []C39_PassesAfterCooldown
    /\ [][C39_FailureAfterOpening /\ C39_NoSilentReset]_vars

\* One failure recorded after the circuit had opened, at a time when a
\* cooldown can be over, has opened it again
C39_Witness ==
    /\ obs.op = "record_failure"
    /\ obs.at >= CIRCUIT_OPEN_SECS
    /\ obs.domain \in DOMAIN circuit_breakers
    /\ circuit_breakers[obs.domain].failures = CIRCUIT_FAILURE_THRESHOLD + 1
    /\ circuit_breakers[obs.domain].open_until = Some(obs.at + CIRCUIT_OPEN_SECS)
    /\ ~check_circuit_breaker(circuit_breakers, obs.domain, now)

\* ------------------------------------------------ what a refusal leaves alone
\* The cache, the circuit breakers and the browser pool are as they were,
\* and no permit has been taken
C40_PoolAndCacheUntouched ==
    UNCHANGED << cache, circuit_breakers, browser, is_healthy, recreation_count,
                 permits, recreation_lock, readers >>

\* The step is load_handler answering request t with one of `codes` and no
\* document before it has called process_url_with_retry
C40_RefusedWith(t, codes) ==
    /\ task[t].pc \in {"idle", "check_rate"} /\ task'[t].pc = "done"
    /\ task'[t].response.code \in codes
    /\ ~task'[t].response.document

\* Until load_handler calls process_url_with_retry the request has taken no
\* permit and has no page
C40_NoPermitBeforePipeline ==
    \A t \in Tasks :
        task[t].pc \in {"idle", "check_rate", "cache_get"} =>
            task[t].pu_calls = 0 /\ ~task[t].page

\* C40: a /load request rejected by validate_url leaves rate-limit,
\* circuit-breaker, cache and browser-pool state unchanged, and a request
\* rejected by check_circuit_breaker or check_rate_limit leaves cache,
\* circuit-breaker and browser-pool state unchanged and acquires no
\* semaphore permit.
C40_RefusalFrame ==
    /\ []C40_NoPermitBeforePipeline
    /\ [][\A t \in Tasks :
             /\ C40_RefusedWith(t, {status_code(InvalidUrl("format")),
                                    status_code(BlockedUrl("blocked_host"))}) =>
                   /\ task[t].pc = "idle"
                   /\ C40_PoolAndCacheUntouched /\ rate_limits' = rate_limits
             /\ C40_RefusedWith(t, {status_code(CircuitBreakerOpen),
                                    status_code(RateLimitExceeded)}) =>
                   C40_PoolAndCacheUntouched /\ task'[t].pu_calls = 0 ]_vars

\* A request has been refused as an invalid URL while the circuit of a
\* domain is open, the cache holds an entry and the rate limiter has counted
\* requests
C40_Witness ==
    \E t \in Tasks :
        /\ task[t].pc = "done"
        /\ task[t].response.code = status_code(InvalidUrl("format"))
        /\ \E d \in DOMAIN circuit_breakers :
              ~check_circuit_breaker(circuit_breakers, d, now)
        /\ cache # << >>
        /\ rate_limits # << >>
        /\ permits = browser_pool_size
====
